---------------------------- MODULE Spec2Model ----------------------------
(***************************************************************************)
(* Prompt/answer pairing of tools/prompt-analysis/export_pairs/main.py.    *)
(*                                                                         *)
(* pair_messages walks the ordered messages of one session and rebuilds    *)
(* prompt -> answer pairs; main serialises every pair as one output row.   *)
(* The loop of pair_messages is modelled one iteration per step: the       *)
(* variable session_messages holds the messages iterated so far, and the   *)
(* loop may end after any message (the end of the session's stream).       *)
(*                                                                         *)
(* The run of main is modelled for one session: the loaders read the       *)
(* records of the two sources one at a time into msgs, sort_messages       *)
(* orders them, pair_messages pairs them and the rows are written.         *)
(***************************************************************************)
EXTENDS Integers, Sequences, FiniteSets, TLC

VARIABLES
    session_messages,  \* the messages of the session the loop has iterated over
    pairs,             \* pair_messages: pairs
    current_prompt,    \* pair_messages: current_prompt
    prompt_time,       \* pair_messages: prompt_time
    title,             \* pair_messages: title
    prompt_meta,       \* pair_messages: prompt_meta
    answer_parts,      \* pair_messages: answer_parts
    answer_time,       \* pair_messages: answer_time
    answer_meta,       \* pair_messages: answer_meta
    rows,              \* main: the rows written for the session
    pc,                \* "loop" | "returned" | "exported" of pair_messages and the
                       \* rows; "load" | "sorted" | "raised" of main; "call"
    args,              \* main: the options of the run and the tokenizer
    titles,            \* load_opencode_session_titles: session id -> title
    files,             \* the source records read so far, in discovery order
    msgs,              \* main: the messages loaded for the session
    raised,            \* the exception that ended the run, None while there is none
    call               \* the last call of a function on its own: arguments, result

\* The state of main outside pair_messages and the rows.
mainvars == <<args, titles, files, msgs, raised, call>>

vars == <<session_messages, pairs, current_prompt, prompt_time, title,
          prompt_meta, answer_parts, answer_time, answer_meta, rows, pc,
          args, titles, files, msgs, raised, call>>

(***************************************************************************)
(* Bound of the model: the longest session explored.                       *)
(***************************************************************************)
MaxLen == 4

(***************************************************************************)
(* Python values.  None is a value no field of a message takes otherwise;  *)
(* the empty dict {} is the empty function.                                *)
(***************************************************************************)
NULL == "None"

EmptyDict == << >>

\* Python truthiness of a value that is None or a str.
Truthy(v) == v # NULL /\ v # ""

\* "\n".join(parts)
RECURSIVE Join(_)
Join(parts) ==
    IF parts = << >> THEN ""
    ELSE IF Len(parts) = 1 THEN parts[1]
    ELSE parts[1] \o "\n" \o Join(Tail(parts))

(***************************************************************************)
(* The messages a loader emits (load_claude_messages, load_opencode_       *)
(* messages): a dict with the eleven keys below; session_id is the same    *)
(* for every message of a session and is left out.  text is never empty    *)
(* after trimming; model of a claude message is any str of the record,     *)
(* the empty one included; an opencode message has no tools.               *)
(***************************************************************************)
Message(source, role, text, time, ttl, model, provider, agent, mode, tools) ==
    [source |-> source, role |-> role, text |-> text, time |-> time,
     title |-> ttl, model |-> model, provider |-> provider, agent |-> agent,
     mode |-> mode, tools |-> tools]

\* A claude message: no title, agent or mode; provider follows model.
ClaudeMessage(role, text, time, model, tools) ==
    Message("claude", role, text, time, NULL, model,
            IF Truthy(model) THEN "claude" ELSE NULL, NULL, NULL,
            IF role = "assistant" THEN tools ELSE << >>)

\* An opencode message: the session's title, no tools.
OpencodeMessage(role, text, time, ttl, model, provider, agent, mode) ==
    Message("opencode", role, text, time, ttl, model, provider, agent, mode, << >>)

(***************************************************************************)
(* pair_messages.                                                          *)
(***************************************************************************)
\* The tuple appended to pairs (lines 309 and 343).
MakePair(st) ==
    [prompt |-> st.current_prompt, answer |-> Join(st.answer_parts),
     prompt_time |-> st.prompt_time, answer_time |-> st.answer_time,
     title |-> st.title, prompt_meta |-> st.prompt_meta,
     answer_meta |-> st.answer_meta]

\* Mutant: the test without `and answer_parts`.
ShouldFlushAnyPrompt(st) == Truthy(st.current_prompt)

\* `if current_prompt and answer_parts` (lines 308 and 342).
ShouldFlush(st) == Truthy(st.current_prompt) /\ st.answer_parts # << >>

Flush(st) == IF ShouldFlush(st) THEN Append(st.pairs, MakePair(st)) ELSE st.pairs

\* Mutant: prompt_meta without the source of the message.
PromptMetaWithoutSource(msg) ==
    [source |-> NULL, model |-> msg.model, provider |-> msg.provider,
     agent |-> msg.agent, mode |-> msg.mode]

\* prompt_meta of a user message (lines 313-319).
PromptMeta(msg) ==
    [source |-> msg.source, model |-> msg.model, provider |-> msg.provider,
     agent |-> msg.agent, mode |-> msg.mode]

\* The fresh answer_meta of a user message (lines 322-328).
FreshAnswerMeta ==
    [model |-> NULL, provider |-> NULL, agent |-> NULL, mode |-> NULL, tools |-> {}]

\* The set of the elements of a list.
Range(s) == {s[i] : i \in DOMAIN s}

\* Mutant: the assignment without its test.
OverwriteAlways(old, new) == new

\* `if msg.get(k): answer_meta[k] = msg.get(k)` (lines 332-339).
Overwrite(old, new) == IF Truthy(new) THEN new ELSE old

\* Mutant: the tools of the message replace the set.
AddToolsReplaces(tools, list) == Range(list)

\* `for tool in msg.get("tools", []): answer_meta["tools"].add(tool)` (lines 340-341).
AddTools(tools, list) == tools \cup Range(list)

\* Lines 332-341.
UpdateAnswerMeta(meta, msg) ==
    [model    |-> Overwrite(meta.model, msg.model),
     provider |-> Overwrite(meta.provider, msg.provider),
     agent    |-> Overwrite(meta.agent, msg.agent),
     mode     |-> Overwrite(meta.mode, msg.mode),
     tools    |-> AddTools(meta.tools, msg.tools)]

\* Mutant: the branch without the flush of the open pair.
UserBranchWithoutFlush(st, msg) ==
    [pairs          |-> st.pairs,
     current_prompt |-> msg.text,
     prompt_time    |-> msg.time,
     title          |-> msg.title,
     prompt_meta    |-> PromptMeta(msg),
     answer_parts   |-> << >>,
     answer_time    |-> NULL,
     answer_meta    |-> FreshAnswerMeta]

\* Mutant: the title of the session, once set, stays.
UserBranchKeepsTitle(st, msg) ==
    [pairs          |-> Flush(st),
     current_prompt |-> msg.text,
     prompt_time    |-> msg.time,
     title          |-> IF Truthy(st.title) THEN st.title ELSE msg.title,
     prompt_meta    |-> PromptMeta(msg),
     answer_parts   |-> << >>,
     answer_time    |-> NULL,
     answer_meta    |-> FreshAnswerMeta]

\* Mutant: the answer metadata is set up once and kept over the turns.
UserBranchKeepsMeta(st, msg) ==
    [pairs          |-> Flush(st),
     current_prompt |-> msg.text,
     prompt_time    |-> msg.time,
     title          |-> msg.title,
     prompt_meta    |-> PromptMeta(msg),
     answer_parts   |-> << >>,
     answer_time    |-> NULL,
     answer_meta    |-> IF st.answer_meta = EmptyDict THEN FreshAnswerMeta
                        ELSE st.answer_meta]

\* The branch of a user message (lines 307-328).
UserBranch(st, msg) ==
    [pairs          |-> Flush(st),
     current_prompt |-> msg.text,
     prompt_time    |-> msg.time,
     title          |-> msg.title,
     prompt_meta    |-> PromptMeta(msg),
     answer_parts   |-> << >>,
     answer_time    |-> NULL,
     answer_meta    |-> FreshAnswerMeta]

\* Mutant: every message that is not a user message answers the prompt.
TakesAnyReply(st, msg) == msg.role # "user" /\ Truthy(st.current_prompt)

\* The test of the elif (line 329).
TakesAssistant(st, msg) == msg.role = "assistant" /\ Truthy(st.current_prompt)

\* Mutant: every assistant message emits a pair of its own.
AssistantBranchEmits(st, msg) ==
    [st EXCEPT !.pairs        = Append(@, MakePair([st EXCEPT !.answer_parts = <<msg.text>>])),
               !.answer_parts = Append(@, msg.text),
               !.answer_time  = msg.time,
               !.answer_meta  = UpdateAnswerMeta(@, msg)]

\* Mutant: the answer keeps the text of the last assistant message alone.
AssistantBranchKeepsLast(st, msg) ==
    [st EXCEPT !.answer_parts = <<msg.text>>,
               !.answer_time  = msg.time,
               !.answer_meta  = UpdateAnswerMeta(@, msg)]

\* Mutant: answer_time follows the last assistant message that has a time.
AssistantBranchLatestTime(st, msg) ==
    [st EXCEPT !.answer_parts = Append(@, msg.text),
               !.answer_time  = IF msg.time # NULL THEN msg.time ELSE @,
               !.answer_meta  = UpdateAnswerMeta(@, msg)]

\* The branch of an assistant message (lines 330-341).
AssistantBranch(st, msg) ==
    [st EXCEPT !.answer_parts = Append(@, msg.text),
               !.answer_time  = msg.time,
               !.answer_meta  = UpdateAnswerMeta(@, msg)]

\* The locals of pair_messages, as one record.
Locals ==
    [pairs |-> pairs, current_prompt |-> current_prompt,
     prompt_time |-> prompt_time, title |-> title, prompt_meta |-> prompt_meta,
     answer_parts |-> answer_parts, answer_time |-> answer_time,
     answer_meta |-> answer_meta]

SetLocals(st) ==
    /\ pairs' = st.pairs
    /\ current_prompt' = st.current_prompt
    /\ prompt_time' = st.prompt_time
    /\ title' = st.title
    /\ prompt_meta' = st.prompt_meta
    /\ answer_parts' = st.answer_parts
    /\ answer_time' = st.answer_time
    /\ answer_meta' = st.answer_meta

\* The loop takes the next message of the session.
Iterate(msg) ==
    /\ pc = "loop"
    /\ Len(session_messages) < MaxLen
    /\ session_messages' = Append(session_messages, msg)
    /\ UNCHANGED <<rows, pc>>
    /\ UNCHANGED mainvars

\* One iteration on a user message.
UserMessage(msg) ==
    /\ msg.role = "user"
    /\ Iterate(msg)
    /\ SetLocals(UserBranch(Locals, msg))

\* One iteration on an assistant message while a prompt is open.
AssistantMessage(msg) ==
    /\ msg.role # "user"
    /\ TakesAssistant(Locals, msg)
    /\ Iterate(msg)
    /\ SetLocals(AssistantBranch(Locals, msg))

\* Mutant: answer_time is assigned outside the branch of the elif.
OtherMessageSetsTime(msg) ==
    /\ msg.role # "user"
    /\ ~TakesAssistant(Locals, msg)
    /\ Iterate(msg)
    /\ answer_time' = msg.time
    /\ UNCHANGED <<pairs, current_prompt, prompt_time, title, prompt_meta,
                   answer_parts, answer_meta>>

\* One iteration that takes neither branch.
OtherMessage(msg) ==
    /\ msg.role # "user"
    /\ ~TakesAssistant(Locals, msg)
    /\ Iterate(msg)
    /\ UNCHANGED <<pairs, current_prompt, prompt_time, title, prompt_meta,
                   answer_parts, answer_time, answer_meta>>

\* Mutant: the return without the last flush.
ReturnWithoutFlush ==
    /\ pc = "loop"
    /\ pc' = "returned"
    /\ UNCHANGED <<session_messages, pairs, current_prompt, prompt_time, title,
                   prompt_meta, answer_parts, answer_time, answer_meta, rows>>
    /\ UNCHANGED mainvars

\* The end of the loop: the last flush and the return (lines 342-344).
Return ==
    /\ pc = "loop"
    /\ pairs' = Flush(Locals)
    /\ pc' = "returned"
    /\ UNCHANGED <<session_messages, current_prompt, prompt_time, title,
                   prompt_meta, answer_parts, answer_time, answer_meta, rows>>
    /\ UNCHANGED mainvars

\* The locals on entry (lines 298-305).
InitialLocals ==
    [pairs |-> << >>, current_prompt |-> NULL, prompt_time |-> NULL,
     title |-> NULL, prompt_meta |-> EmptyDict, answer_parts |-> << >>,
     answer_time |-> NULL, answer_meta |-> EmptyDict]

\* The body of the loop (lines 307-341).
LoopBody(st, msg) ==
    IF msg.role = "user" THEN UserBranch(st, msg)
    ELSE IF TakesAssistant(st, msg) THEN AssistantBranch(st, msg)
    ELSE st

RECURSIVE Loop(_, _)
Loop(st, messages) ==
    IF messages = << >> THEN st
    ELSE Loop(LoopBody(st, Head(messages)), Tail(messages))

\* pair_messages as a function of the list of messages.
PairMessages(messages) == Flush(Loop(InitialLocals, messages))

(***************************************************************************)
(* str: the methods of Python's str the program uses, on the strings of    *)
(* the model.                                                              *)
(***************************************************************************)
Whitespace == {" ", "\n", "\t"}

\* The i-th character of s, as a string.
Char(s, i) == SubSeq(s, i, i)

\* s.startswith(p)
StartsWith(s, p) == Len(s) >= Len(p) /\ SubSeq(s, 1, Len(p)) = p

\* s.endswith(p)
EndsWith(s, p) == Len(s) >= Len(p) /\ SubSeq(s, Len(s) - Len(p) + 1, Len(s)) = p

\* p in s
Contains(s, p) == \E i \in 1..(Len(s) - Len(p) + 1) : SubSeq(s, i, i + Len(p) - 1) = p

\* s.lstrip()
RECURSIVE LStrip(_)
LStrip(s) ==
    IF Len(s) > 0 /\ Char(s, 1) \in Whitespace THEN LStrip(SubSeq(s, 2, Len(s))) ELSE s

\* s.rstrip()
RECURSIVE RStrip(_)
RStrip(s) ==
    IF Len(s) > 0 /\ Char(s, Len(s)) \in Whitespace
    THEN RStrip(SubSeq(s, 1, Len(s) - 1)) ELSE s

\* s.strip()
Strip(s) == RStrip(LStrip(s))

\* s.replace(old, new) for a one-character old.
RECURSIVE Replace(_, _, _)
Replace(s, old, new) ==
    IF Len(s) = 0 THEN ""
    ELSE (IF Char(s, 1) = old THEN new ELSE Char(s, 1))
         \o Replace(SubSeq(s, 2, Len(s)), old, new)

\* The first word of a string that starts with no whitespace.
RECURSIVE FirstWord(_)
FirstWord(s) ==
    IF Len(s) = 0 \/ Char(s, 1) \in Whitespace THEN ""
    ELSE Char(s, 1) \o FirstWord(SubSeq(s, 2, Len(s)))

\* s.split(): the words between runs of whitespace.
RECURSIVE Split(_)
Split(s) ==
    LET rest == LStrip(s)
        word == FirstWord(rest)
    IN  IF rest = "" THEN << >>
        ELSE <<word>> \o Split(SubSeq(rest, Len(word) + 1, Len(rest)))

(***************************************************************************)
(* count_tokens (lines 36-41).  The tokenizer is None or an encoding of    *)
(* tiktoken, a library outside the repository: Encode stands for its       *)
(* encode and yields one token per character, the tokens of a byte-level   *)
(* vocabulary before any merge.                                            *)
(***************************************************************************)
Tiktoken == "o200k_base"

Encode(tokenizer, text) == [i \in 1..Len(text) |-> Char(text, i)]

\* Mutant: the tokenizer is never used.
CountTokensWhitespaceOnly(text, tokenizer) ==
    IF ~Truthy(text) THEN 0 ELSE Len(Split(text))

CountTokens(text, tokenizer) ==
    IF ~Truthy(text) THEN 0
    ELSE IF tokenizer = NULL THEN Len(Split(text))
    ELSE Len(Encode(tokenizer, text))

(***************************************************************************)
(* datetime.  A naive datetime is the name of its wall-clock time ("t1",   *)
(* "t2", and "min" for datetime.min); an aware one, in UTC, is that name   *)
(* followed by "utc".  WallIso is the wall-clock time in ISO-8601.         *)
(***************************************************************************)
WallOrder == <<"min", "t1", "t2">>

WallRank(w) == CHOOSE i \in DOMAIN WallOrder : WallOrder[i] = w

WallIso(w) ==
    CASE w = "min" -> "0001-01-01T00:00:00"
      [] w = "t1"  -> "1970-01-01T00:00:01"
      [] w = "t2"  -> "1970-01-01T00:00:02"

Aware(w) == w \o "utc"

IsAware(dt) == EndsWith(dt, "utc")

WallOf(dt) == IF IsAware(dt) THEN SubSeq(dt, 1, Len(dt) - Len("utc")) ELSE dt

\* datetime.min
DatetimeMin == "min"

\* datetime.fromisoformat: a wall-clock time, then nothing or a UTC offset;
\* "ValueError" stands for the exception on any other string.
FromIsoFormat(s) ==
    LET length == Len(WallIso("min"))
        body   == SubSeq(s, 1, length)
        offset == SubSeq(s, length + 1, Len(s))
        walls  == {w \in Range(WallOrder) : WallIso(w) = body}
    IN  IF Len(s) < length \/ walls = {} THEN "ValueError"
        ELSE IF offset = "" THEN CHOOSE w \in walls : TRUE
        ELSE IF offset = "+00:00" THEN Aware(CHOOSE w \in walls : TRUE)
        ELSE "ValueError"

\* parse_iso (lines 50-56)
ParseIso(ts) ==
    IF ~Truthy(ts) THEN NULL
    ELSE LET dt == FromIsoFormat(Replace(ts, "Z", "+00:00"))
         IN  IF dt = "ValueError" THEN NULL ELSE dt

\* dt.isoformat()
IsoFormat(dt) == WallIso(WallOf(dt)) \o (IF IsAware(dt) THEN "+00:00" ELSE "")

(***************************************************************************)
(* time.created of an opencode message is the text of a JSON value.  It is *)
(* an int when it is all digits; datetime.fromtimestamp turns milliseconds *)
(* into the naive local time, here in a UTC zone, and raises beyond the    *)
(* year 9999.                                                              *)
(***************************************************************************)
\* isinstance(created_ms, int)
IsJsonInt(v) ==
    /\ Len(v) > 0
    /\ \A i \in 1..Len(v) : Char(v, i) \in {"0", "1", "2", "3", "4", "5", "6", "7", "8", "9"}

\* The digits of the milliseconds of 9999-12-31T23:59:59.
MaxTimestampDigits == 15

\* datetime.fromtimestamp(created_ms / 1000.0) for whole seconds below ten;
\* "OverflowError" stands for the exception.
FromTimestamp(created_ms) ==
    LET secs  == SubSeq(created_ms, 1, Len(created_ms) - 3)
        walls == {w \in Range(WallOrder) : WallIso(w) = "1970-01-01T00:00:0" \o secs}
    IN  IF Len(created_ms) > MaxTimestampDigits THEN "OverflowError"
        ELSE CHOOSE w \in walls : TRUE

(***************************************************************************)
(* sort_messages (lines 347-351).  sorted() is stable and compares keys    *)
(* with <, which raises TypeError between a naive and an aware datetime.   *)
(* To order the list it has to compare, directly, some key of each kind    *)
(* once both kinds occur.                                                  *)
(***************************************************************************)
\* key(m) (lines 348-350)
Key(m) == IF Truthy(m.time) THEN m.time ELSE DatetimeMin

\* a < b for two datetimes of one kind.
Less(a, b) == WallRank(WallOf(a)) < WallRank(WallOf(b))

\* sorted() raises.
SortRaises(messages) ==
    \E i, j \in DOMAIN messages : IsAware(Key(messages[i])) # IsAware(Key(messages[j]))

RECURSIVE InsertByKey(_, _)
InsertByKey(sorted, m) ==
    IF sorted = << >> THEN <<m>>
    ELSE IF Less(Key(m), Key(Head(sorted))) THEN <<m>> \o sorted
    ELSE <<Head(sorted)>> \o InsertByKey(Tail(sorted), m)

\* sorted(messages, key=key) when it does not raise.
RECURSIVE SortMessages(_)
SortMessages(messages) ==
    IF messages = << >> THEN << >>
    ELSE InsertByKey(SortMessages(SubSeq(messages, 1, Len(messages) - 1)),
                     messages[Len(messages)])

(***************************************************************************)
(* The text of a message: extract_claude_text (lines 59-97) and            *)
(* extract_opencode_parts (lines 198-230).                                 *)
(*                                                                         *)
(* The content of a claude message is [form |-> "str", text |-> s], or     *)
(* [form |-> "list", items |-> <<...>>] with the items below, or of        *)
(* another form.  The output of a tool_result item is a str or a list of   *)
(* children with the keys text and content, None for what is not a str.    *)
(***************************************************************************)
IdeMarker == "<ide_opened_file>"

SuggestionMarker == "[SUGGESTION MODE:"

InterruptedMarker == "[Request interrupted by user for tool use]"

ToolOutputPrefix == "TOOL_OUTPUT: "

StrContent(text) == [form |-> "str", text |-> text]

ListContent(items) == [form |-> "list", items |-> items]

TextItem(text) == [type |-> "text", text |-> text]

StrOutput(text) == [form |-> "str", text |-> text]

ListOutput(children) == [form |-> "list", children |-> children]

ToolResultItem(output) == [type |-> "tool_result", output |-> output]

\* A part file of an opencode message.
TextPart(text) == [type |-> "text", text |-> text]

ToolPart(output) == [type |-> "tool", output |-> output]

\* Mutant: the cut at max_tool_len without the test of the limit's sign.
TruncateAnyLimit(out_text, max_tool_len) ==
    IF Len(out_text) > max_tool_len
    THEN SubSeq(out_text, 1, max_tool_len) \o "..." ELSE out_text

\* Lines 94-95 and 227-228.
Truncate(out_text, max_tool_len) ==
    IF max_tool_len > 0 /\ Len(out_text) > max_tool_len
    THEN SubSeq(out_text, 1, max_tool_len) \o "..." ELSE out_text

\* Lines 92-96 and 225-229: the part a tool output folds into, if any.
FoldToolOutput(out_text, max_tool_len) ==
    IF Strip(out_text) = "" THEN << >>
    ELSE <<ToolOutputPrefix \o Truncate(Strip(out_text), max_tool_len)>>

\* Lines 84-90: the strs of the children, text before content.
RECURSIVE ChildChunks(_)
ChildChunks(children) ==
    IF children = << >> THEN << >>
    ELSE (IF Head(children).text # NULL THEN <<Head(children).text>> ELSE << >>)
         \o (IF Head(children).content # NULL THEN <<Head(children).content>> ELSE << >>)
         \o ChildChunks(Tail(children))

\* Lines 79-91.
OutputText(output) ==
    IF output.form = "str" THEN output.text
    ELSE IF output.form = "list" THEN Join(ChildChunks(output.children))
    ELSE ""

\* Mutant: a text item is kept whatever it holds.
TextItemPartsUnfiltered(item, a) ==
    IF Truthy(item.text) THEN <<item.text>> ELSE << >>

\* Lines 70-77.
TextItemParts(item, a) ==
    IF /\ Truthy(item.text)
       /\ ~(~a.include_ide_events /\ Contains(item.text, IdeMarker))
       /\ ~StartsWith(Strip(item.text), InterruptedMarker)
    THEN <<item.text>> ELSE << >>

\* Lines 68-96: the parts one item adds.
ItemParts(item, a) ==
    IF item.type = "text" THEN TextItemParts(item, a)
    ELSE IF item.type = "tool_result" /\ a.include_tool_output
    THEN FoldToolOutput(OutputText(item.output), a.max_tool_len)
    ELSE << >>

RECURSIVE ClaudeParts(_, _)
ClaudeParts(items, a) ==
    IF items = << >> THEN << >>
    ELSE ItemParts(Head(items), a) \o ClaudeParts(Tail(items), a)

\* extract_claude_text
ExtractClaudeText(content, a) ==
    IF content.form = "str" THEN content.text
    ELSE IF content.form = "list" THEN Join(ClaudeParts(content.items, a))
    ELSE ""

\* extract_claude_tools (lines 100-111)
RECURSIVE ToolNames(_)
ToolNames(items) ==
    IF items = << >> THEN << >>
    ELSE (IF Head(items).type = "tool_use" /\ Truthy(Head(items).name)
          THEN <<Head(items).name>> ELSE << >>)
         \o ToolNames(Tail(items))

ExtractClaudeTools(content) ==
    IF content.form = "list" THEN ToolNames(content.items) ELSE << >>

\* Lines 215-229: the parts one part file adds.
OpencodePartParts(part, a) ==
    IF part.type = "text"
    THEN (IF Strip(part.text) # "" THEN <<Strip(part.text)>> ELSE << >>)
    ELSE IF part.type = "tool" /\ a.include_tool_output /\ part.output # NULL
    THEN FoldToolOutput(part.output, a.max_tool_len)
    ELSE << >>

RECURSIVE OpencodeParts(_, _)
OpencodeParts(parts, a) ==
    IF parts = << >> THEN << >>
    ELSE OpencodePartParts(Head(parts), a) \o OpencodeParts(Tail(parts), a)

\* What is not a str where a str is expected: a JSON number.
NotAString == "<number>"

\* What cannot be the key of a dict: a JSON array.
Unhashable == "<array>"

\* extract_opencode_parts; os.path.join raises on an id that is not a str,
\* and "TypeError" stands for the exception.
ExtractOpencodeParts(message_id, parts, a) ==
    IF ~Truthy(message_id) THEN ""
    ELSE IF message_id = NotAString THEN "TypeError"
    ELSE Join(OpencodeParts(parts, a))

(***************************************************************************)
(* The filters both loaders apply to the text (lines 146-154, 271-278).    *)
(***************************************************************************)
\* Mutant: the suggestion filter without its option.
IsSuggestionAlways(text, a) == StartsWith(LStrip(text), SuggestionMarker)

IsSuggestion(text, a) ==
    a.exclude_suggestion_mode /\ StartsWith(LStrip(text), SuggestionMarker)

IsIdeEvent(text, a) == ~a.include_ide_events /\ Contains(text, IdeMarker)

IsInterrupted(text) == StartsWith(Strip(text), InterruptedMarker)

\* Mutant: only the empty text counts as empty.
IsBlankUntrimmed(text) == text = ""

IsBlank(text) == Strip(text) = ""

Filtered(text, a) ==
    IsSuggestion(text, a) \/ IsIdeEvent(text, a) \/ IsInterrupted(text) \/ IsBlank(text)

(***************************************************************************)
(* load_claude_messages (lines 114-174), one line of a .jsonl file at a    *)
(* time.  A line is [file, json, type, message, role, model, content,      *)
(* sessionId, timestamp]: json tells whether the line is invalid JSON, a   *)
(* JSON value that is no object, or an object; message whether the         *)
(* record's message is a dict.  The lines of a file follow each other and  *)
(* the files are numbered as os.walk finds them; dirpath is the directory  *)
(* os.walk yields for the file, the root of the logs unless said otherwise.*)
(***************************************************************************)
ClaudeLine(file, json, type, role, model, content, sessionId, timestamp) ==
    [source |-> "claude", dirpath |-> "/c/p", file |-> file, json |-> json, type |-> type,
     message |-> "dict", role |-> role, model |-> model, content |-> content,
     sessionId |-> sessionId, timestamp |-> timestamp]

Roles == {"user", "assistant"}

\* The line reaches the text filters (lines 131-145).
ClaudeLineRead(rec, a) ==
    /\ rec.json = "object"
    /\ (a.include_system \/ rec.type \in Roles)
    /\ rec.message = "dict"
    /\ (a.include_system \/ rec.role \in Roles)

\* The line passes every filter (lines 131-154).
ClaudeLineKept(rec, a) ==
    ClaudeLineRead(rec, a) /\ ~Filtered(ExtractClaudeText(rec.content, a), a)

\* The line raises inside the try of its file: rec.get on what is no dict
\* (line 135), or setdefault on an unhashable session id (line 157).
ClaudeLineRaises(rec, a) ==
    \/ rec.json = "nonobject"
    \/ ClaudeLineKept(rec, a) /\ rec.sessionId = Unhashable

\* The test of line 119, os.sep being "/": the files of the directory are
\* not opened.
DirSkipped(dirpath, a) == ~a.include_subagents /\ Contains(dirpath, "/subagents/")

\* An earlier line of the file raised: the except of line 172 left the file.
FileLeft(read, file, a) ==
    \E i \in DOMAIN read :
        read[i].source = "claude" /\ read[i].file = file /\ ClaudeLineRaises(read[i], a)

\* The messages the line adds (lines 155-171).
LoadClaudeLine(rec, a) ==
    IF ClaudeLineKept(rec, a) /\ ~ClaudeLineRaises(rec, a)
    THEN <<ClaudeMessage(rec.role, ExtractClaudeText(rec.content, a),
                         ParseIso(rec.timestamp), rec.model,
                         ExtractClaudeTools(rec.content))>>
    ELSE << >>

(***************************************************************************)
(* load_opencode_messages (lines 233-294), one message file at a time.  A  *)
(* file is [json, sessionID, role, id, modelID, providerID, model, agent,  *)
(* mode, created, parts]: model is None or the dict of the message's       *)
(* model block, created the text of time.created or None, parts the part   *)
(* files of the message in the order of their names.                       *)
(***************************************************************************)
OpencodeFile(json, sessionID, role, id, modelID, providerID, model, agent, mode, created, parts) ==
    [source |-> "opencode", json |-> json, sessionID |-> sessionID, role |-> role,
     id |-> id, modelID |-> modelID, providerID |-> providerID, model |-> model,
     agent |-> agent, mode |-> mode, created |-> created, parts |-> parts]

NoModelBlock == EmptyDict

\* The file reaches line 257.
OpencodeFileRead(rec, a) ==
    rec.json = "object" /\ (a.include_system \/ rec.role \in Roles)

\* Lines 258-262.
OpencodeModel(rec) ==
    IF ~Truthy(rec.modelID) /\ rec.model # NoModelBlock
    THEN [model |-> rec.model.modelID, provider |-> rec.model.providerID]
    ELSE [model    |-> IF Truthy(rec.modelID) THEN rec.modelID ELSE NULL,
          provider |-> IF Truthy(rec.providerID) THEN rec.providerID ELSE NULL]

\* Lines 265-269: the time of the message, or the exception.
Created(rec) ==
    IF rec.created # NULL /\ IsJsonInt(rec.created)
    THEN FromTimestamp(rec.created) ELSE NULL

\* titles.get(session_id)
TitleOf(ttls, session_id) ==
    IF session_id \in DOMAIN ttls THEN ttls[session_id] ELSE NULL

\* The exception the file raises out of the loader, None if it raises none:
\* no statement after line 250 is inside a try.
OpencodeFileRaises(rec, a) ==
    IF ~OpencodeFileRead(rec, a) THEN NULL
    ELSE IF Created(rec) = "OverflowError" THEN "OverflowError"
    ELSE IF ExtractOpencodeParts(rec.id, rec.parts, a) = "TypeError" THEN "TypeError"
    ELSE IF Filtered(ExtractOpencodeParts(rec.id, rec.parts, a), a) THEN NULL
    ELSE IF rec.sessionID = Unhashable THEN "TypeError"
    ELSE NULL

\* The file passes every filter (lines 251-278).
OpencodeFileKept(rec, a) ==
    /\ OpencodeFileRead(rec, a)
    /\ OpencodeFileRaises(rec, a) = NULL
    /\ ~Filtered(ExtractOpencodeParts(rec.id, rec.parts, a), a)

\* The messages the file adds (lines 279-293).
LoadOpencodeFile(rec, a, ttls) ==
    IF OpencodeFileKept(rec, a)
    THEN <<OpencodeMessage(rec.role, ExtractOpencodeParts(rec.id, rec.parts, a),
                           Created(rec), TitleOf(ttls, rec.sessionID),
                           OpencodeModel(rec).model, OpencodeModel(rec).provider,
                           IF Truthy(rec.agent) THEN rec.agent ELSE NULL,
                           IF Truthy(rec.mode) THEN rec.mode ELSE NULL)>>
    ELSE << >>

(***************************************************************************)
(* main: one row per pair (lines 406-430).  sorted() orders tool names as  *)
(* str; ToolOrder lists the names of the model in that order.              *)
(***************************************************************************)
ToolOrder == <<"bash", "edit", "read">>

ToolRank(t) == CHOOSE i \in DOMAIN ToolOrder : ToolOrder[i] = t

\* sorted(list(tools))
RECURSIVE SortedTools(_)
SortedTools(tools) ==
    IF tools = {} THEN << >>
    ELSE LET least == CHOOSE t \in tools : \A u \in tools : ToolRank(t) <= ToolRank(u)
         IN  <<least>> \o SortedTools(tools \ {least})

\* pt.isoformat() if pt else None
TimeField(t) == IF Truthy(t) THEN IsoFormat(t) ELSE NULL

\* The fields of a row but the session id.
Row(pair) ==
    [session_title   |-> pair.title,
     source          |-> pair.prompt_meta.source,
     prompt          |-> pair.prompt,
     answer          |-> pair.answer,
     prompt_tokens   |-> CountTokens(pair.prompt, args.tokenizer),
     answer_tokens   |-> CountTokens(pair.answer, args.tokenizer),
     total_tokens    |-> CountTokens(pair.prompt, args.tokenizer)
                         + CountTokens(pair.answer, args.tokenizer),
     prompt_time     |-> TimeField(pair.prompt_time),
     answer_time     |-> TimeField(pair.answer_time),
     prompt_model    |-> pair.prompt_meta.model,
     prompt_provider |-> pair.prompt_meta.provider,
     answer_model    |-> pair.answer_meta.model,
     answer_provider |-> pair.answer_meta.provider,
     answer_agent    |-> pair.answer_meta.agent,
     answer_mode     |-> pair.answer_meta.mode,
     answer_tools    |-> SortedTools(pair.answer_meta.tools)]

Export ==
    /\ pc = "returned"
    /\ rows' = [k \in DOMAIN pairs |-> Row(pairs[k])]
    /\ pc' = "exported"
    /\ UNCHANGED <<session_messages, pairs, current_prompt, prompt_time, title,
                   prompt_meta, answer_parts, answer_time, answer_meta>>
    /\ UNCHANGED mainvars

(***************************************************************************)
(* The options of main as argparse sets them when no flag is given (lines  *)
(* 356-366), with the tokenizer load_tokenizer returns: None, or tiktoken. *)
(***************************************************************************)
DefaultToolLen == 2000

DefaultArgs ==
    [include_tool_output |-> FALSE, max_tool_len |-> DefaultToolLen,
     include_system |-> FALSE, include_subagents |-> FALSE,
     exclude_suggestion_mode |-> TRUE, include_ide_events |-> FALSE,
     tokenizer |-> NULL]

\* No session file gives a title.
NoTitles == EmptyDict

\* No call of count_tokens yet.
NoCall == [text |-> NULL, tokenizer |-> NULL, result |-> 0]

\* The state of main before anything is read.
MainIdle ==
    /\ titles = NoTitles
    /\ files = << >>
    /\ msgs = << >>
    /\ raised = NULL
    /\ call = NoCall

(***************************************************************************)
(* The state on entry of pair_messages (lines 298-305).                    *)
(***************************************************************************)
Init ==
    /\ args = DefaultArgs
    /\ MainIdle
    /\ session_messages = << >>
    /\ pairs = << >>
    /\ current_prompt = NULL
    /\ prompt_time = NULL
    /\ title = NULL
    /\ prompt_meta = EmptyDict
    /\ answer_parts = << >>
    /\ answer_time = NULL
    /\ answer_meta = EmptyDict
    /\ rows = << >>
    /\ pc = "loop"

(***************************************************************************)
(* Sessions of text and time: user messages of both sources, assistant     *)
(* messages with every text and time, and a system message.                *)
(***************************************************************************)
Texts == {"A", "B"}

Times == {NULL, "t1", "t2"}

SessionMessages ==
    {ClaudeMessage("user", "A", "t1", NULL, << >>),
     OpencodeMessage("user", "B", "t2", "T", "m1", "p1", "a1", "d1"),
     OpencodeMessage("user", "C", NULL, NULL, NULL, NULL, NULL, NULL)}
    \cup {ClaudeMessage("assistant", x, t, NULL, << >>) : x \in Texts, t \in Times}
    \cup {ClaudeMessage("system", "S", "t1", NULL, << >>)}

Next ==
    \/ \E msg \in SessionMessages : UserMessage(msg)
    \/ \E msg \in SessionMessages : AssistantMessage(msg)
    \/ \E msg \in SessionMessages : OtherMessage(msg)
    \/ Return
    \/ Export

Spec == Init /\ [][Next]_vars

(***************************************************************************)
(* Sessions of answer metadata: one user message and assistant messages    *)
(* of both sources.  A claude message carries any str as model, the empty  *)
(* one included, and "claude" as provider when model is set; an opencode   *)
(* message takes model and provider from modelID/providerID or from the    *)
(* model block, whose values are kept as they are, and agent and mode      *)
(* with an empty value turned into None.                                   *)
(***************************************************************************)
MetaMessages ==
    {ClaudeMessage("user", "A", "t1", NULL, << >>)}
    \cup {ClaudeMessage("assistant", "B", "t1", m, << >>) : m \in {NULL, "", "m1"}}
    \cup {OpencodeMessage("assistant", "B", "t1", NULL, NULL, NULL, NULL, NULL),
          OpencodeMessage("assistant", "B", "t1", NULL, "m2", "p2", NULL, NULL),
          OpencodeMessage("assistant", "B", "t1", NULL, "", "", NULL, NULL),
          OpencodeMessage("assistant", "B", "t1", NULL, NULL, "p1", NULL, NULL),
          OpencodeMessage("assistant", "B", "t1", NULL, NULL, NULL, "a1", NULL),
          OpencodeMessage("assistant", "B", "t1", NULL, NULL, NULL, NULL, "d1"),
          OpencodeMessage("assistant", "B", "t1", NULL, "m2", NULL, "a2", "d2")}

NextMeta ==
    \/ \E msg \in MetaMessages : UserMessage(msg)
    \/ \E msg \in MetaMessages : AssistantMessage(msg)
    \/ \E msg \in MetaMessages : OtherMessage(msg)
    \/ Return
    \/ Export

SpecMeta == Init /\ [][NextMeta]_vars

(***************************************************************************)
(* Sessions of tool names: one user message and claude assistant messages  *)
(* whose tool_use items come in any order, with repetitions.               *)
(***************************************************************************)
ToolLists ==
    {<< >>, <<"bash">>, <<"edit">>, <<"bash", "bash">>, <<"read", "bash">>,
     <<"bash", "read">>, <<"edit", "read", "bash">>}

ToolMessages ==
    {ClaudeMessage("user", "A", "t1", NULL, << >>)}
    \cup {ClaudeMessage("assistant", "B", "t1", "m1", l) : l \in ToolLists}

NextTools ==
    \/ \E msg \in ToolMessages : UserMessage(msg)
    \/ \E msg \in ToolMessages : AssistantMessage(msg)
    \/ \E msg \in ToolMessages : OtherMessage(msg)
    \/ Return
    \/ Export

SpecTools == Init /\ [][NextTools]_vars

(***************************************************************************)
(* What a session says, read off the list of its messages alone.           *)
(***************************************************************************)
\* The positions of the user messages.
UserPositions(s) == {i \in DOMAIN s : s[i].role = "user"}

\* The position of the first user message after position i, or Len(s) + 1.
TurnEnd(s, i) ==
    LET later == {j \in UserPositions(s) : j > i}
    IN  IF later = {} THEN Len(s) + 1
        ELSE CHOOSE j \in later : \A l \in later : j <= l

\* The assistant messages of the turn opened at position i.
Contributors(s, i) ==
    {j \in DOMAIN s : i < j /\ j < TurnEnd(s, i) /\ s[j].role = "assistant"}

\* The user messages followed by an assistant message before the next one.
Answered(s) == {i \in UserPositions(s) : Contributors(s, i) # {}}

\* Those of them whose turn a later user message has ended.
Closed(s) == {i \in Answered(s) : TurnEnd(s, i) <= Len(s)}

\* The prompts whose pair is due: the closed turns while the loop runs, every
\* answered turn once it has ended.
Due == IF pc = "loop" THEN Closed(session_messages) ELSE Answered(session_messages)

\* The k-th smallest element of a set of positions.
Kth(S, k) == CHOOSE i \in S : Cardinality({j \in S : j <= i}) = k

\* The elements of a set of positions, in ascending order.
Ascending(S) == [k \in 1..Cardinality(S) |-> Kth(S, k)]

\* The position of the prompt of the k-th due pair, and of its answers.
Origin(k) == Kth(Due, k)

Answers(k) == Ascending(Contributors(session_messages, Origin(k)))

LastAnswer(k) == Answers(k)[Len(Answers(k))]

\* The texts of a list, each on a line of its own.
RECURSIVE Lines(_)
Lines(texts) ==
    IF Len(texts) = 0 THEN ""
    ELSE IF Len(texts) = 1 THEN texts[1]
    ELSE Lines(SubSeq(texts, 1, Len(texts) - 1)) \o "\n" \o texts[Len(texts)]

\* The pair the locals of pair_messages stand for.
OpenPair ==
    [prompt |-> current_prompt, answer |-> Lines(answer_parts),
     prompt_time |-> prompt_time, answer_time |-> answer_time,
     title |-> title, prompt_meta |-> prompt_meta, answer_meta |-> answer_meta]

\* The message of a step of the loop.
Iterates == pc = "loop" /\ Len(session_messages') = Len(session_messages) + 1

Current == session_messages'[Len(session_messages')]

(***************************************************************************)
(* Properties of the pairing.                                              *)
(***************************************************************************)
\* C1: every emitted pair has a non-empty prompt that is the text of a user
\* message and a non-empty answer joined from the assistant messages that
\* follow that user message before the next one, of which there is at least
\* one; no more pairs are emitted than there are user messages so answered.
C1_NoAnswerlessPair ==
    /\ \A k \in DOMAIN pairs :
          /\ Truthy(pairs[k].prompt)
          /\ pairs[k].answer # ""
          /\ \E i \in UserPositions(session_messages) :
                /\ pairs[k].prompt = session_messages[i].text
                /\ Contributors(session_messages, i) # {}
                /\ pairs[k].answer =
                      Lines([n \in 1..Cardinality(Contributors(session_messages, i)) |->
                              session_messages[Kth(Contributors(session_messages, i), n)].text])
    /\ Len(pairs) <= Cardinality(Answered(session_messages))

\* Two prompts left without an answer, one superseded and one dangling at the
\* end of the session, and a pair emitted between them.
C1_Witness ==
    /\ pc = "returned"
    /\ Len(session_messages) = 4
    /\ session_messages[1].role = "user"
    /\ session_messages[2].role = "user"
    /\ session_messages[3].role = "assistant"
    /\ session_messages[4].role = "user"
    /\ Len(pairs) = 1

\* C2: the number of emitted pairs never exceeds the number of user messages
\* of the session.
C2_PairsAtMostUsers == Len(pairs) <= Cardinality(UserPositions(session_messages))

\* A session of two user messages that returns as many pairs.
C2_Witness ==
    /\ pc = "returned"
    /\ Cardinality(UserPositions(session_messages)) = 2
    /\ Len(pairs) = 2

\* C3, the transition: a user message that arrives while the open pair has
\* an assistant contribution appends that pair, as it stands, once to pairs
\* and opens a new pair from the user message.
C3_FlushStep ==
    (/\ Iterates
     /\ Current.role = "user"
     /\ current_prompt # NULL
     /\ answer_parts # << >>)
    => /\ pairs' = Append(pairs, OpenPair)
       /\ current_prompt' = Current.text
       /\ answer_parts' = << >>

\* A session user, assistant, user, assistant, ...
Alternates(s) ==
    /\ Len(s) % 2 = 0
    /\ \A i \in DOMAIN s : s[i].role = (IF i % 2 = 1 THEN "user" ELSE "assistant")

\* C3, the consequence: an alternating session of n user messages yields n
\* pairs, the k-th of the k-th user text and the k-th assistant text.
C3_AlternatingPairs ==
    (pc # "loop" /\ Alternates(session_messages))
    => /\ Len(pairs) * 2 = Len(session_messages)
       /\ \A k \in DOMAIN pairs :
             /\ pairs[k].prompt = session_messages[2 * k - 1].text
             /\ pairs[k].answer = session_messages[2 * k].text

\* C3: the flush on a user message, and the pairs of an alternating session.
C3_FlushOnUser == [][C3_FlushStep]_vars /\ []C3_AlternatingPairs

\* The session [user, assistant, user, assistant] has returned its two pairs.
C3_Witness ==
    /\ pc = "returned"
    /\ Len(session_messages) = 4
    /\ Alternates(session_messages)
    /\ Len(pairs) = 2
    /\ pairs[1].prompt # pairs[2].prompt

\* C4, the transition: a user message that arrives while the open pair has
\* no assistant contribution emits nothing and replaces the pending prompt,
\* its time, its title and its metadata.
C4_ReplaceStep ==
    (/\ Iterates
     /\ Current.role = "user"
     /\ current_prompt # NULL
     /\ answer_parts = << >>)
    => /\ pairs' = pairs
       /\ current_prompt' = Current.text
       /\ prompt_time' = Current.time
       /\ title' = Current.title
       /\ prompt_meta' = [source |-> Current.source, model |-> Current.model,
                          provider |-> Current.provider, agent |-> Current.agent,
                          mode |-> Current.mode]

\* C4, the consequence: the prompt of a pair is the last user message of its
\* run of user messages, and [user, user, assistant] yields the one pair of
\* the second user message.
C4_LastOfRun ==
    /\ \A k \in DOMAIN pairs :
          /\ k <= Cardinality(Due)
          /\ pairs[k].prompt = session_messages[Origin(k)].text
          /\ pairs[k].title = session_messages[Origin(k)].title
          /\ pairs[k].prompt_meta.source = session_messages[Origin(k)].source
    /\ (/\ pc # "loop"
        /\ Len(session_messages) = 3
        /\ session_messages[1].role = "user"
        /\ session_messages[2].role = "user"
        /\ session_messages[3].role = "assistant")
       => /\ Len(pairs) = 1
          /\ pairs[1].prompt = session_messages[2].text
          /\ pairs[1].answer = session_messages[3].text

\* C4: the replacement of an answerless prompt, and the prompt of a run of
\* user messages.
C4_ReplacePending == [][C4_ReplaceStep]_vars /\ []C4_LastOfRun

\* The session [user, user, assistant] with two different user messages has
\* returned its pair.
C4_Witness ==
    /\ pc = "returned"
    /\ Len(session_messages) = 3
    /\ session_messages[1].role = "user"
    /\ session_messages[2].role = "user"
    /\ session_messages[3].role = "assistant"
    /\ session_messages[1] # session_messages[2]
    /\ Len(pairs) = 1

\* C5: the answer of the k-th pair is the newline join, in arrival order, of
\* the texts of exactly the assistant messages between its prompt and the
\* next user message or the end of the session.
C5_AnswerIsJoin ==
    /\ Len(pairs) <= Cardinality(Due)
    /\ \A k \in DOMAIN pairs :
          pairs[k].answer =
              Lines([n \in DOMAIN Answers(k) |-> session_messages[Answers(k)[n]].text])

\* A pair whose answer is joined from two assistant messages of different
\* texts.
C5_Witness ==
    /\ pc = "returned"
    /\ \E k \in DOMAIN pairs :
          /\ Len(Answers(k)) = 2
          /\ pairs[k].answer = "B\nA"

\* C6: prompt_time of a pair is the time of the user message that opened it
\* and answer_time is the time of the last assistant message of its answer,
\* None included.
C6_Times ==
    /\ Len(pairs) <= Cardinality(Due)
    /\ \A k \in DOMAIN pairs :
          /\ pairs[k].prompt_time = session_messages[Origin(k)].time
          /\ pairs[k].answer_time = session_messages[LastAnswer(k)].time

\* A pair whose last assistant message has no time while an earlier one has:
\* answer_time is None.
C6_Witness ==
    /\ pc = "returned"
    /\ \E k \in DOMAIN pairs :
          /\ Len(Answers(k)) = 2
          /\ session_messages[Answers(k)[1]].time = "t2"
          /\ session_messages[Answers(k)[2]].time = NULL
          /\ pairs[k].answer_time = NULL
          /\ pairs[k].prompt_time = "t2"

\* C9, the transition: an assistant message iterated while no prompt is open
\* changes none of the locals of pair_messages.
C9_IgnoreStep ==
    (/\ Iterates
     /\ Current.role = "assistant"
     /\ current_prompt = NULL)
    => UNCHANGED <<pairs, current_prompt, prompt_time, title, prompt_meta,
                   answer_parts, answer_time, answer_meta>>

\* The session without the assistant messages that precede its first user
\* message.
RECURSIVE DropLeadingAssistants(_)
DropLeadingAssistants(s) ==
    IF s = << >> \/ Head(s).role = "user" THEN s
    ELSE IF Head(s).role = "assistant" THEN DropLeadingAssistants(Tail(s))
    ELSE <<Head(s)>> \o DropLeadingAssistants(Tail(s))

\* C9, the consequence: before the first user message the locals are as on
\* entry, and the pairs and rows of a session are those of the session
\* without the assistant messages before its first user message.
C9_NoTrace ==
    /\ UserPositions(session_messages) = {}
       => /\ pairs = << >>
          /\ current_prompt = NULL
          /\ prompt_time = NULL
          /\ title = NULL
          /\ answer_parts = << >>
          /\ answer_time = NULL
          /\ rows = << >>
    /\ pc # "loop"
       => pairs = PairMessages(DropLeadingAssistants(session_messages))

\* C9: an assistant message before the first user message is ignored.
C9_IdleAssistantIgnored == [][C9_IgnoreStep]_vars /\ []C9_NoTrace

\* An assistant message with a time, then a user message and its answer: the
\* pair returned holds the text and time of the answer alone.
C9_Witness ==
    /\ pc = "returned"
    /\ Len(session_messages) = 3
    /\ session_messages[1].role = "assistant"
    /\ session_messages[1].text = "A"
    /\ session_messages[1].time = "t1"
    /\ session_messages[2].role = "user"
    /\ session_messages[3].role = "assistant"
    /\ Len(pairs) = 1
    /\ pairs[1].answer = "B"
    /\ pairs[1].answer_time = "t2"

\* C10, the transition: at the end of the stream the open pair is emitted
\* if and only if it has an assistant contribution.
C10_EndStep ==
    (pc = "loop" /\ pc' = "returned")
    => pairs' = IF current_prompt # NULL /\ answer_parts # << >>
                THEN Append(pairs, OpenPair)
                ELSE pairs

\* C10, the consequence: once the stream has ended there is one pair for
\* every user message followed by an assistant message before the next user
\* message or the end, in the order of those user messages, and no other.
C10_OnePairPerAnsweredPrompt ==
    pc # "loop"
    => /\ Len(pairs) = Cardinality(Answered(session_messages))
       /\ \A k \in DOMAIN pairs :
             pairs[k].prompt = session_messages[Kth(Answered(session_messages), k)].text

\* C10: the flush at the end of the stream, and the pairs of the session.
C10_EndOfStream == [][C10_EndStep]_vars /\ []C10_OnePairPerAnsweredPrompt

\* A session that ends on an answered prompt after a closed one.
C10_Witness ==
    /\ pc = "returned"
    /\ Len(session_messages) = 4
    /\ Answered(session_messages) = {1, 3}
    /\ Closed(session_messages) = {1}
    /\ Len(pairs) = 2

\* The answer metadata fields of a pair.
MetaFields == {"model", "provider", "agent", "mode"}

\* The positions, among the answers of the k-th pair, of the messages whose
\* field f is not None, and of those whose field f is neither None nor empty.
NonNullAnswers(k, f) ==
    {n \in DOMAIN Answers(k) : session_messages[Answers(k)[n]][f] # NULL}

NonEmptyAnswers(k, f) ==
    {n \in DOMAIN Answers(k) : Truthy(session_messages[Answers(k)[n]][f])}

\* Field f of the last answer among the positions ns, None when there is none.
LastValue(k, f, ns) ==
    IF ns = {} THEN NULL
    ELSE session_messages[Answers(k)[CHOOSE n \in ns : \A l \in ns : l <= n]][f]

\* C7 as stated: every answer metadata field of a pair is the value of the
\* last contributing assistant message whose value is not None, and None
\* exactly when no contributing message has one.
C7_LastNonNull ==
    /\ Len(pairs) <= Cardinality(Due)
    /\ \A k \in DOMAIN pairs : \A f \in MetaFields :
          pairs[k].answer_meta[f] = LastValue(k, f, NonNullAnswers(k, f))

\* C7 as amended: every answer metadata field of a pair is the value of the
\* last contributing assistant message whose value is neither None nor
\* empty, and None exactly when no contributing message has such a value; a
\* later None or empty value erases nothing.
C7_LastNonEmpty ==
    /\ Len(pairs) <= Cardinality(Due)
    /\ \A k \in DOMAIN pairs : \A f \in MetaFields :
          /\ pairs[k].answer_meta[f] = LastValue(k, f, NonEmptyAnswers(k, f))
          /\ pairs[k].answer_meta[f] = NULL <=> NonEmptyAnswers(k, f) = {}

\* A pair of three assistant messages: the second sets model, provider,
\* agent and mode anew, the third carries none of them.
C7_Witness ==
    /\ pc = "returned"
    /\ Len(pairs) = 1
    /\ Len(Answers(1)) = 3
    /\ session_messages[Answers(1)[1]].model = "m1"
    /\ session_messages[Answers(1)[1]].provider = "claude"
    /\ session_messages[Answers(1)[2]].model = "m2"
    /\ session_messages[Answers(1)[2]].agent = "a2"
    /\ session_messages[Answers(1)[3]].model = NULL
    /\ session_messages[Answers(1)[3]].agent = NULL
    /\ pairs[1].answer_meta.model = "m2"
    /\ pairs[1].answer_meta.provider = "claude"
    /\ pairs[1].answer_meta.agent = "a2"
    /\ pairs[1].answer_meta.mode = "d2"

\* The tool names of the assistant messages of the k-th pair.
ToolsOf(k) ==
    UNION {Range(session_messages[j].tools) : j \in Contributors(session_messages, Origin(k))}

\* A list of tool names in strictly ascending order.
StrictlySorted(list) ==
    \A a, b \in DOMAIN list : a < b => ToolRank(list[a]) < ToolRank(list[b])

\* The session with the messages at positions i and i + 1 exchanged.
Exchanged(s, i) ==
    [n \in DOMAIN s |-> IF n = i THEN s[i + 1] ELSE IF n = i + 1 THEN s[i] ELSE s[n]]

\* The session with every tool name of every message repeated.
Repeated(s) == [n \in DOMAIN s |-> [s[n] EXCEPT !.tools = @ \o @]]

\* The tool sets of a list of pairs.
ToolSets(ps) == [k \in DOMAIN ps |-> ps[k].answer_meta.tools]

\* C8: the tool set of a pair is the union of the tool names of the
\* assistant messages of its turn; exchanging two assistant messages of a
\* turn or repeating the tool names changes no tool set; answer_tools of a
\* row is that set as a list in strictly ascending order.
C8_ToolUnion ==
    /\ Len(pairs) <= Cardinality(Due)
    /\ \A k \in DOMAIN pairs : pairs[k].answer_meta.tools = ToolsOf(k)
    /\ pc # "loop"
       => /\ \A i \in 1..(Len(session_messages) - 1) :
                (/\ session_messages[i].role = "assistant"
                 /\ session_messages[i + 1].role = "assistant")
                => ToolSets(PairMessages(Exchanged(session_messages, i))) = ToolSets(pairs)
          /\ ToolSets(PairMessages(Repeated(session_messages))) = ToolSets(pairs)
    /\ pc = "exported"
       => /\ Len(rows) = Len(pairs)
          /\ \A k \in DOMAIN rows :
                /\ StrictlySorted(rows[k].answer_tools)
                /\ Range(rows[k].answer_tools) = ToolsOf(k)

\* A row whose tools come from two assistant messages that name the same
\* tool, the later one after another tool.
C8_Witness ==
    /\ pc = "exported"
    /\ Len(session_messages) = 3
    /\ session_messages[2].tools = <<"bash">>
    /\ session_messages[3].tools = <<"read", "bash">>
    /\ Len(rows) = 1
    /\ rows[1].answer_tools = <<"bash", "read">>

(***************************************************************************)
(* main (lines 377-432) for one session: the lines of the claude files are *)
(* read, then the opencode message files, each adding its message to msgs  *)
(* (lines 395-398: the claude messages of a session come first).  Then     *)
(* msgs is sorted, paired and written.  An exception that leaves a loader  *)
(* or sort_messages ends the run.                                          *)
(***************************************************************************)
MaxLoad == 3

pairvars == <<session_messages, pairs, current_prompt, prompt_time, title,
              prompt_meta, answer_parts, answer_time, answer_meta>>

\* The state before anything is read, at the given place of the program.
InitAt(argset, titleset, start) ==
    /\ args \in argset
    /\ titles \in titleset
    /\ files = << >>
    /\ msgs = << >>
    /\ raised = NULL
    /\ call = NoCall
    /\ session_messages = << >>
    /\ pairs = << >>
    /\ current_prompt = NULL
    /\ prompt_time = NULL
    /\ title = NULL
    /\ prompt_meta = EmptyDict
    /\ answer_parts = << >>
    /\ answer_time = NULL
    /\ answer_meta = EmptyDict
    /\ rows = << >>
    /\ pc = start

\* The exception and the function it leaves.
RaisedIn(exception, function) == exception \o " in " \o function

\* load_claude_messages reads the next line of a file.
ReadClaudeLine(rec) ==
    /\ pc = "load"
    /\ Len(files) < MaxLoad
    /\ \A i \in DOMAIN files : files[i].source = "claude" /\ files[i].file <= rec.file
    /\ files' = Append(files, rec)
    /\ msgs' = IF DirSkipped(rec.dirpath, args) \/ FileLeft(files, rec.file, args)
               THEN msgs
               ELSE msgs \o LoadClaudeLine(rec, args)
    /\ UNCHANGED <<args, titles, raised, call, rows, pc>>
    /\ UNCHANGED pairvars

\* load_opencode_messages reads the next message file.
ReadOpencodeFile(rec) ==
    /\ pc = "load"
    /\ Len(files) < MaxLoad
    /\ files' = Append(files, rec)
    /\ IF OpencodeFileRaises(rec, args) # NULL
       THEN /\ raised' = RaisedIn(OpencodeFileRaises(rec, args), "load_opencode_messages")
            /\ pc' = "raised"
            /\ UNCHANGED msgs
       ELSE /\ msgs' = msgs \o LoadOpencodeFile(rec, args, titles)
            /\ UNCHANGED <<raised, pc>>
    /\ UNCHANGED <<args, titles, call, rows>>
    /\ UNCHANGED pairvars

\* msgs_sorted = sort_messages(msgs) (line 404)
Sort ==
    /\ pc = "load"
    /\ IF SortRaises(msgs)
       THEN /\ raised' = RaisedIn("TypeError", "sort_messages")
            /\ pc' = "raised"
            /\ UNCHANGED session_messages
       ELSE /\ session_messages' = SortMessages(msgs)
            /\ pc' = "sorted"
            /\ UNCHANGED raised
    /\ UNCHANGED <<pairs, current_prompt, prompt_time, title, prompt_meta,
                   answer_parts, answer_time, answer_meta, rows>>
    /\ UNCHANGED <<args, titles, files, msgs, call>>

\* pairs = pair_messages(msgs_sorted) (line 405)
Pair ==
    /\ pc = "sorted"
    /\ SetLocals([Loop(InitialLocals, session_messages)
                    EXCEPT !.pairs = PairMessages(session_messages)])
    /\ pc' = "returned"
    /\ UNCHANGED <<session_messages, rows>>
    /\ UNCHANGED mainvars

\* The exit status of the process: main never calls sys.exit, so it is 1
\* after an uncaught exception and 0 otherwise.
ExitStatus == IF raised # NULL THEN 1 ELSE 0

(***************************************************************************)
(* Sessions of timestamps: well-formed records of both sources whose       *)
(* timestamp is missing, unparseable, or one of two instants.              *)
(***************************************************************************)
Timestamps == {NULL, "soon", "1970-01-01T00:00:01Z", "1970-01-01T00:00:02Z"}

SortClaudeLines ==
    {ClaudeLine(1, "object", "user", "user", NULL, StrContent("A"), "s1", ts) :
         ts \in Timestamps}
    \cup {ClaudeLine(1, "object", "assistant", "assistant", NULL, StrContent(x), "s1", ts) :
              x \in Texts, ts \in Timestamps}

SortOpencodeFiles ==
    {OpencodeFile("object", "s1", "user", "m1", NULL, NULL, NoModelBlock, NULL, NULL,
                  ms, <<TextPart("B")>>) : ms \in {NULL, "1000", "2000"}}
    \cup {OpencodeFile("object", "s1", "assistant", "m2", NULL, NULL, NoModelBlock,
                       NULL, NULL, ms, <<TextPart("A")>>) : ms \in {NULL, "1000", "2000"}}

NextSort ==
    \/ \E rec \in SortClaudeLines : ReadClaudeLine(rec)
    \/ \E rec \in SortOpencodeFiles : ReadOpencodeFile(rec)
    \/ Sort
    \/ Pair
    \/ Export

SpecSort == InitAt({DefaultArgs}, {NoTitles}, "load") /\ [][NextSort]_vars

(***************************************************************************)
(* What the list handed to sort_messages says: the instant of a message,   *)
(* 0 when it has no timestamp.                                             *)
(***************************************************************************)
Instant(m) ==
    CASE m.time = NULL -> 0
      [] m.time \in {"t1", "t1utc"} -> 1
      [] m.time \in {"t2", "t2utc"} -> 2

\* sort_messages was called and has returned or raised.
SortCalled == pc \in {"sorted", "returned", "exported"} \/ raised = "TypeError in sort_messages"

\* out is input in the order of p, ascending by instant, ties in input order.
StablySorted(out, input) ==
    /\ Len(out) = Len(input)
    /\ \E p \in [DOMAIN out -> DOMAIN input] :
           /\ \A i, j \in DOMAIN out : i # j => p[i] # p[j]
           /\ \A i \in DOMAIN out : out[i] = input[p[i]]
           /\ \A i, j \in DOMAIN out :
                  i < j => \/ Instant(out[i]) < Instant(out[j])
                           \/ Instant(out[i]) = Instant(out[j]) /\ p[i] < p[j]

(***************************************************************************)
(* C11: sort_messages returns a permutation of its input in ascending      *)
(* order of timestamp, every message without a timestamp before every      *)
(* message with one, and messages of equal key in their original order.    *)
(***************************************************************************)
C11_StableAscending ==
    SortCalled => raised = NULL /\ StablySorted(session_messages, msgs)

(***************************************************************************)
(* C12: a missing or unparseable timestamp is never fatal: sorting and     *)
(* pairing complete without raising for every session, one that mixes      *)
(* messages without a timestamp and messages with one included, and one    *)
(* that merges the messages of both sources.                               *)
(***************************************************************************)
C12_NeverFatal == pc # "raised"

(***************************************************************************)
(* C20: in every row, prompt_time and answer_time are each null or an      *)
(* ISO-8601 string that ends in Z, whichever source the message is from.   *)
(***************************************************************************)
C20_TimesEndInZ ==
    \A k \in DOMAIN rows :
        /\ rows[k].prompt_time = NULL \/ EndsWith(rows[k].prompt_time, "Z")
        /\ rows[k].answer_time = NULL \/ EndsWith(rows[k].answer_time, "Z")

(***************************************************************************)
(* count_tokens on its own: every text of up to MaxText characters over a  *)
(* letter, the space and the newline, the texts of the examples, and None, *)
(* with and without a tokenizer.                                           *)
(***************************************************************************)
MaxText == 4

RECURSIVE Strings(_)
Strings(n) ==
    IF n = 0 THEN {""}
    ELSE Strings(n - 1) \cup {s \o c : s \in Strings(n - 1), c \in {"a", " ", "\n"}}

TokenTexts == Strings(MaxText) \cup {NULL, "alpha beta  gamma"}

\* One call of count_tokens (lines 407-408).
CallCountTokens(text, tokenizer) ==
    /\ pc = "call"
    /\ call' = [text |-> text, tokenizer |-> tokenizer,
                result |-> CountTokens(text, tokenizer)]
    /\ UNCHANGED <<args, titles, files, msgs, raised, rows, pc>>
    /\ UNCHANGED pairvars

NextTokens ==
    \E text \in TokenTexts, tokenizer \in {NULL, Tiktoken} : CallCountTokens(text, tokenizer)

SpecTokens == InitAt({DefaultArgs}, {NoTitles}, "call") /\ [][NextTokens]_vars

\* The maximal runs of characters that are not whitespace: where they start.
RunStarts(text) ==
    {i \in 1..Len(text) :
        /\ SubSeq(text, i, i) \notin {" ", "\n"}
        /\ (i = 1 \/ SubSeq(text, i - 1, i - 1) \in {" ", "\n"})}

(***************************************************************************)
(* C19: count_tokens returns a non-negative integer: 0 for an empty or     *)
(* null text whatever the tokenizer; without a tokenizer the number of     *)
(* maximal runs of non-whitespace characters; with a tokenizer the length  *)
(* of the tokenizer's encoding of the text.                                *)
(***************************************************************************)
C19_CountTokens ==
    call # NoCall =>
        /\ call.result \in Nat
        /\ call.text \in {NULL, ""} => call.result = 0
        /\ call.text \notin {NULL, ""} /\ call.tokenizer = NULL =>
               call.result = Cardinality(RunStarts(call.text))
        /\ call.text \notin {NULL, ""} /\ call.tokenizer # NULL =>
               call.result = Len(Encode(call.tokenizer, call.text))

\* The example of three words, counted without a tokenizer.
C19_Witness ==
    /\ call.text = "alpha beta  gamma"
    /\ call.tokenizer = NULL
    /\ call.result = 3

(***************************************************************************)
(* Sessions of filtered text: records of both sources whose text is a      *)
(* suggestion, carries the IDE marker in one of several places, is blank,  *)
(* or is plain, under every combination of the options that filter.  No    *)
(* record has a timestamp.                                                 *)
(***************************************************************************)
Suggestion == "[SUGGESTION MODE: x]"

IdeEvent == "<ide_opened_file>f"

FilterClaudeLines ==
    {ClaudeLine(1, "object", "user", "user", NULL, content, "s1", NULL) :
         content \in {StrContent(" " \o Suggestion),
                      StrContent(Suggestion \o " " \o IdeEvent),
                      StrContent(" "),
                      ListContent(<<TextItem(IdeEvent), TextItem("fix")>>),
                      ListContent(<<TextItem("A"), ToolResultItem(StrOutput(IdeEvent))>>)}}
    \cup {ClaudeLine(1, "object", "assistant", "assistant", NULL, StrContent("B"), "s1", NULL),
          ClaudeLine(1, "object", "system", "system", NULL, StrContent(Suggestion), "s1", NULL)}

FilterOpencodeFiles ==
    {OpencodeFile("object", "s1", "user", "m1", NULL, NULL, NoModelBlock, NULL, NULL,
                  NULL, parts) :
         parts \in {<<TextPart(" " \o Suggestion)>>,
                    <<TextPart(IdeEvent), TextPart("fix")>>,
                    <<TextPart(" ")>>}}
    \cup {OpencodeFile("object", "s1", "assistant", "m2", NULL, NULL, NoModelBlock,
                       NULL, NULL, NULL, <<TextPart("A"), ToolPart(IdeEvent)>>)}

FilterArgs ==
    {[DefaultArgs EXCEPT !.exclude_suggestion_mode = e, !.include_ide_events = i,
                         !.include_system = s, !.include_tool_output = t] :
         e \in BOOLEAN, i \in BOOLEAN, s \in BOOLEAN, t \in BOOLEAN}

NextFilter ==
    \/ \E rec \in FilterClaudeLines : ReadClaudeLine(rec)
    \/ \E rec \in FilterOpencodeFiles : ReadOpencodeFile(rec)
    \/ Sort
    \/ Pair
    \/ Export

SpecFilter == InitAt(FilterArgs, {NoTitles}, "load") /\ [][NextFilter]_vars

(***************************************************************************)
(* What a source record says, read without the loaders: its segments in    *)
(* order, each the text of a text part or the output of a tool result.     *)
(***************************************************************************)
Blank == {" ", "\n", "\t"}

\* s without the whitespace at its start.
TrimLeft(s) ==
    IF \A i \in 1..Len(s) : SubSeq(s, i, i) \in Blank THEN ""
    ELSE SubSeq(s, CHOOSE i \in 1..Len(s) :
                       /\ SubSeq(s, i, i) \notin Blank
                       /\ \A j \in 1..(i - 1) : SubSeq(s, j, j) \in Blank,
                Len(s))

\* s without the whitespace at its start and end.
Trim(s) ==
    LET left == TrimLeft(s)
    IN  IF left = "" THEN ""
        ELSE SubSeq(left, 1, CHOOSE i \in 1..Len(left) :
                                 /\ SubSeq(left, i, i) \notin Blank
                                 /\ \A j \in (i + 1)..Len(left) : SubSeq(left, j, j) \in Blank)

\* The first n characters of s and an ellipsis when a positive n is less than
\* the length of s, s otherwise.
Cut(s, n) == IF n > 0 /\ n < Len(s) THEN SubSeq(s, 1, n) \o "..." ELSE s

\* The texts of a list that are there.
Present(list) == SelectSeq(list, LAMBDA x : x # NULL)

\* The output of a tool result: the str, or the lines of the children's strs.
OutputOf(output) ==
    IF output.form = "str" THEN output.text
    ELSE IF output.form = "list"
    THEN Lines(Present([i \in 1..(2 * Len(output.children)) |->
                            IF i % 2 = 1 THEN output.children[(i + 1) \div 2].text
                            ELSE output.children[i \div 2].content]))
    ELSE ""

Segment(kind, body) == [kind |-> kind, body |-> body]

\* The segments of a record: the whole of a str content, the text and the
\* tool results of a list content, the trimmed text and the tool outputs of
\* the part files.
Segments(rec) ==
    IF rec.source = "claude"
    THEN IF rec.content.form = "str" THEN <<Segment("whole", rec.content.text)>>
         ELSE IF rec.content.form = "list"
         THEN [i \in DOMAIN rec.content.items |->
                  LET item == rec.content.items[i]
                  IN  IF item.type = "text" THEN Segment("item", item.text)
                      ELSE IF item.type = "tool_result"
                      THEN Segment("tool", OutputOf(item.output))
                      ELSE Segment("none", "")]
         ELSE << >>
    ELSE [i \in DOMAIN rec.parts |->
             LET part == rec.parts[i]
             IN  IF part.type = "text" THEN Segment("text", Trim(part.text))
                 ELSE IF part.type = "tool" /\ part.output # NULL
                 THEN Segment("tool", part.output)
                 ELSE Segment("none", "")]

HasMarker(s, marker) ==
    \E i \in 1..Len(s) : i + Len(marker) - 1 <= Len(s) /\ SubSeq(s, i, i + Len(marker) - 1) = marker

Begins(s, marker) == Len(marker) <= Len(s) /\ SubSeq(s, 1, Len(marker)) = marker

\* The line a segment adds to the text, None when it adds none: an item of
\* a claude list is left out when it is empty, is an IDE event while those
\* are not included, or is an interruption; a tool output is folded, trimmed
\* and cut, when tool output is included and it is not blank.
SegmentLine(seg, a) ==
    CASE seg.kind = "whole" -> seg.body
      [] seg.kind = "text"  -> IF seg.body = "" THEN NULL ELSE seg.body
      [] seg.kind = "item"  ->
             IF \/ seg.body \in {NULL, ""}
                \/ ~a.include_ide_events /\ HasMarker(seg.body, "<ide_opened_file>")
                \/ Begins(Trim(seg.body), "[Request interrupted by user for tool use]")
             THEN NULL ELSE seg.body
      [] seg.kind = "tool"  ->
             IF a.include_tool_output /\ Trim(seg.body) # ""
             THEN "TOOL_OUTPUT: " \o Cut(Trim(seg.body), a.max_tool_len) ELSE NULL
      [] seg.kind = "none"  -> NULL

\* The text the record's message has, if it is loaded.
ExpectedText(rec, a) ==
    LET segments == Segments(rec)
    IN  Lines(Present([i \in DOMAIN segments |-> SegmentLine(segments[i], a)]))

\* The record is one the loader turns into a message, its text apart.
Admitted(rec, a) ==
    \/ a.include_system
    \/ /\ rec.role \in {"user", "assistant"}
       /\ rec.source = "claude" => rec.type \in {"user", "assistant"}

\* The text is one the named filter drops.
SuggestionText(text) == Begins(TrimLeft(text), "[SUGGESTION MODE:")

IdeText(text) == HasMarker(text, "<ide_opened_file>")

\* A step that reads a record, and the record it reads.
Loads == Len(files') = Len(files) + 1

Source == files'[Len(files')]

\* The step adds no message.
LoadsNothing == msgs' = msgs

\* The step adds one message, of the record's role and source and the text.
LoadsText(text) ==
    /\ Len(msgs') = Len(msgs) + 1
    /\ SubSeq(msgs', 1, Len(msgs)) = msgs
    /\ msgs'[Len(msgs')].text = text
    /\ msgs'[Len(msgs')].role = Source.role
    /\ msgs'[Len(msgs')].source = Source.source

\* Every text the pairer has put in a pair, a prompt or an answer.
PairTexts == {pairs[k].prompt : k \in DOMAIN pairs} \cup {pairs[k].answer : k \in DOMAIN pairs}

\* The list handed to pair_messages holds the loaded messages, all of them.
AllPaired ==
    pc \in {"sorted", "returned", "exported"} =>
        /\ Len(session_messages) = Len(msgs)
        /\ \A i \in DOMAIN msgs :
               Cardinality({j \in DOMAIN msgs : msgs[j] = msgs[i]})
               = Cardinality({j \in DOMAIN session_messages : session_messages[j] = msgs[i]})

(***************************************************************************)
(* C13, as claimed: while exclude_suggestion_mode is true a message whose  *)
(* text, left-trimmed, starts with [SUGGESTION MODE: is in no loaded       *)
(* message and in no pair; while it is false the same message is loaded    *)
(* and takes part in pairing.                                              *)
(***************************************************************************)
C13_LoadedWhenIncluded ==
    [][Loads =>
           LET text == ExpectedText(Source, args)
           IN  SuggestionText(text) =>
                   IF args.exclude_suggestion_mode THEN LoadsNothing
                   ELSE LoadsText(text)]_vars

\* C13, the transition: the suggestion is dropped while excluded; while
\* included it is loaded exactly when no other filter drops it.
C13_Step ==
    Loads =>
        LET text == ExpectedText(Source, args)
        IN  SuggestionText(text) =>
                IF /\ ~args.exclude_suggestion_mode
                   /\ Admitted(Source, args)
                   /\ (args.include_ide_events \/ ~IdeText(text))
                THEN LoadsText(text)
                ELSE LoadsNothing

\* C13, the state: while excluded no loaded message and no pair holds a
\* suggestion; every loaded message is in the list that is paired.
C13_State ==
    /\ args.exclude_suggestion_mode =>
           /\ \A i \in DOMAIN msgs : ~HasMarker(msgs[i].text, "[SUGGESTION MODE:")
           /\ \A text \in PairTexts : ~HasMarker(text, "[SUGGESTION MODE:")
    /\ AllPaired

(***************************************************************************)
(* C13, amended: while exclude_suggestion_mode is true a message whose     *)
(* text, left-trimmed, starts with [SUGGESTION MODE: is in no loaded       *)
(* message and in no pair; while it is false the marker drops nothing: the *)
(* message is loaded, and handed to the pairer, exactly when the filters   *)
(* of role and of IDE events let it pass.                                  *)
(***************************************************************************)
C13_SuggestionFilter == [][C13_Step]_vars /\ []C13_State

\* With suggestions included, a suggestion of each source is a prompt of a row.
C13_Witness ==
    /\ pc = "exported"
    /\ ~args.exclude_suggestion_mode
    /\ Len(rows) = 1
    /\ SuggestionText(rows[1].prompt)
    /\ rows[1].answer = "B"

\* The record shows an IDE event in a segment the options make part of it.
ShowsIdeEvent(rec, a) ==
    LET segments == Segments(rec)
    IN  \E i \in DOMAIN segments :
            /\ \/ segments[i].kind \in {"whole", "text", "item"}
               \/ segments[i].kind = "tool" /\ a.include_tool_output
            /\ IdeText(segments[i].body)

\* No loaded message holds the marker of an IDE event while those are excluded.
NoIdeText ==
    ~args.include_ide_events => \A i \in DOMAIN msgs : ~IdeText(msgs[i].text)

(***************************************************************************)
(* C14, as claimed: while include_ide_events is false a message whose text *)
(* contains <ide_opened_file> is dropped as a whole, the other text parts  *)
(* of a message of several parts included, and no loaded message's text    *)
(* contains the marker.                                                    *)
(***************************************************************************)
C14_DroppedWhole ==
    [][Loads /\ ~args.include_ide_events /\ ShowsIdeEvent(Source, args) => LoadsNothing]_vars
    /\ []NoIdeText

\* C14, the transition: the text parts of a claude list that hold the marker
\* are left out one by one and the rest is the text; a message whose text
\* then holds the marker is dropped as a whole.
C14_Step ==
    Loads /\ ~args.include_ide_events /\ ShowsIdeEvent(Source, args) =>
        LET text == ExpectedText(Source, args)
        IN  IF /\ ~IdeText(text)
               /\ Trim(text) # ""
               /\ Admitted(Source, args)
               /\ ~(args.exclude_suggestion_mode /\ SuggestionText(text))
            THEN LoadsText(text)
            ELSE LoadsNothing

(***************************************************************************)
(* C14, amended: while include_ide_events is false no loaded message's     *)
(* text contains <ide_opened_file>.  A text part of a claude message of    *)
(* several parts that contains the marker is left out alone and the other  *)
(* parts make the message; a message whose text contains the marker        *)
(* otherwise (a str content, a folded tool output, any part of an opencode *)
(* message) is dropped as a whole.                                         *)
(***************************************************************************)
C14_IdeEventFilter == [][C14_Step]_vars /\ []NoIdeText

\* A claude message of an IDE event and a typed text is loaded as the text.
C14_Witness ==
    /\ ~args.include_ide_events
    /\ Len(files) = 1
    /\ files[1].source = "claude"
    /\ files[1].content.form = "list"
    /\ files[1].content.items[1].type = "text"
    /\ IdeText(files[1].content.items[1].text)
    /\ Len(msgs) = 1
    /\ msgs[1].text = "fix"

(***************************************************************************)
(* C15: every message a loader emits has a text that is not empty after    *)
(* trimming, whatever the options; so every prompt and every contributing  *)
(* assistant text the pairer sees is non-empty, and the pairer's tests of  *)
(* the prompt discard no loaded user message: each answered user message   *)
(* gives a pair.                                                           *)
(***************************************************************************)
C15_NonEmptyText ==
    /\ \A i \in DOMAIN msgs : Trim(msgs[i].text) # ""
    /\ \A i \in DOMAIN session_messages : Trim(session_messages[i].text) # ""
    /\ pc \in {"returned", "exported"} =>
           /\ Len(pairs) = Cardinality(Answered(session_messages))
           /\ \A k \in DOMAIN pairs : Trim(pairs[k].prompt) # "" /\ Trim(pairs[k].answer) # ""

\* A blank record was read between a prompt and its answer, and one row written.
C15_Witness ==
    /\ pc = "exported"
    /\ Len(files) = 3
    /\ files[2].source = "claude"
    /\ files[2].content = StrContent(" ")
    /\ Len(msgs) = 2
    /\ Len(rows) = 1

(***************************************************************************)
(* Sessions of tool output: records of both sources with a text and a tool *)
(* result that is short, long, padded with whitespace, blank, or a list of *)
(* children, with tool output included or not and a limit that is          *)
(* negative, zero, or ShortToolLen.                                        *)
(***************************************************************************)
ShortToolLen == 3

ToolOutputs == {"abc", "abcdef", " abc ", "abcd  ", " "}

ToolOutputClaudeLines ==
    {ClaudeLine(1, "object", "user", "user", NULL,
                ListContent(<<TextItem("A"), ToolResultItem(StrOutput(o))>>), "s1", NULL) :
         o \in ToolOutputs}
    \cup {ClaudeLine(1, "object", "user", "user", NULL,
                     ListContent(<<ToolResultItem(ListOutput(
                         <<[text |-> "ab", content |-> "cd"], [text |-> NULL, content |-> "e"]>>))>>),
                     "s1", NULL)}

ToolOutputOpencodeFiles ==
    {OpencodeFile("object", "s1", "assistant", "m2", NULL, NULL, NoModelBlock, NULL, NULL,
                  NULL, <<ToolPart(o), TextPart("B")>>) : o \in ToolOutputs \ {"abc"}}

ToolOutputArgs ==
    {[DefaultArgs EXCEPT !.include_tool_output = t, !.max_tool_len = n] :
         t \in BOOLEAN, n \in {0 - 1, 0, ShortToolLen}}

NextToolOutput ==
    \/ \E rec \in ToolOutputClaudeLines : ReadClaudeLine(rec)
    \/ \E rec \in ToolOutputOpencodeFiles : ReadOpencodeFile(rec)
    \/ Sort
    \/ Pair
    \/ Export

SpecToolOutput == InitAt(ToolOutputArgs, {NoTitles}, "load") /\ [][NextToolOutput]_vars

\* The line a segment adds when a tool output is folded as it is.
SegmentLineUntrimmed(seg, a) ==
    IF seg.kind = "tool"
    THEN (IF a.include_tool_output THEN "TOOL_OUTPUT: " \o Cut(seg.body, a.max_tool_len)
          ELSE NULL)
    ELSE SegmentLine(seg, a)

(***************************************************************************)
(* C16, as claimed: tool output is folded into the text only when          *)
(* include_tool_output is set; each folded segment is TOOL_OUTPUT: and the *)
(* tool output, cut to the limit and followed by ... exactly when the      *)
(* output is longer than the limit, a limit <= 0 cutting nothing; without  *)
(* include_tool_output the text is made of the text segments only.         *)
(***************************************************************************)
C16_FoldedAsIs ==
    [][Loads /\ Len(msgs') > Len(msgs) =>
           LET segments == Segments(Source)
           IN  LoadsText(Lines(Present([i \in DOMAIN segments |->
                                           SegmentLineUntrimmed(segments[i], args)])))]_vars

(***************************************************************************)
(* C16, amended: tool output is folded into the text only when             *)
(* include_tool_output is set; each folded segment is TOOL_OUTPUT: and the *)
(* trimmed tool output, cut to the limit and followed by ... exactly when  *)
(* the trimmed output is longer than the limit, a limit <= 0 cutting       *)
(* nothing; an output that is blank is not folded; without                 *)
(* include_tool_output the text is made of the text segments only.         *)
(***************************************************************************)
C16_ToolOutputFolded ==
    [][Loads =>
           LET text == ExpectedText(Source, args)
           IN  IF Trim(text) # "" THEN LoadsText(text) ELSE LoadsNothing]_vars

\* A long output is cut at the limit, a padded one of the limit's length is not.
C16_Witness ==
    /\ args.include_tool_output
    /\ args.max_tool_len = ShortToolLen
    /\ Len(msgs) = 2
    /\ msgs[1].text = "A\nTOOL_OUTPUT: abc..."
    /\ msgs[2].text = "A\nTOOL_OUTPUT: abc"
    /\ files[2].content.items[2].output.text = " abc "

(***************************************************************************)
(* Sessions of malformed files: lines of two claude files and opencode     *)
(* message files that are invalid JSON, a JSON value that is no object, an *)
(* object with a field of an unexpected type or range (a time.created      *)
(* beyond the year 9999 among them), or well formed.                       *)
(***************************************************************************)
SoundClaudeLine(file, role, text) ==
    ClaudeLine(file, "object", role, role, NULL, StrContent(text), "s1", NULL)

SoundOpencodeFile(role, text) ==
    OpencodeFile("object", "s1", role, "m1", NULL, NULL, NoModelBlock, NULL, NULL, NULL,
                 <<TextPart(text)>>)

FilesClaudeLines ==
    UNION {{SoundClaudeLine(f, "user", "A"),
            SoundClaudeLine(f, "assistant", "B"),
            [SoundClaudeLine(f, "user", "A") EXCEPT !.json = "invalid"],
            [SoundClaudeLine(f, "user", "A") EXCEPT !.json = "nonobject"],
            [SoundClaudeLine(f, "user", "A") EXCEPT !.message = "other"],
            [SoundClaudeLine(f, "user", "A") EXCEPT !.sessionId = Unhashable]} : f \in {1, 2}}

FilesOpencodeFiles ==
    {SoundOpencodeFile("user", "A"),
     SoundOpencodeFile("assistant", "B"),
     [SoundOpencodeFile("user", "A") EXCEPT !.json = "invalid"],
     [SoundOpencodeFile("user", "A") EXCEPT !.json = "nonobject"],
     [SoundOpencodeFile("user", "A") EXCEPT !.id = NotAString],
     [SoundOpencodeFile("user", "A") EXCEPT !.sessionID = Unhashable],
     [SoundOpencodeFile("user", "A") EXCEPT !.created = "10000000000000000000000"],
     [SoundOpencodeFile("user", "A") EXCEPT !.created = "1.5"]}

NextFiles ==
    \/ \E rec \in FilesClaudeLines : ReadClaudeLine(rec)
    \/ \E rec \in FilesOpencodeFiles : ReadOpencodeFile(rec)
    \/ Sort
    \/ Pair
    \/ Export

SpecFiles == InitAt({DefaultArgs}, {NoTitles}, "load") /\ [][NextFiles]_vars

\* The record is a JSON object with every field of the expected type and range.
WellFormed(rec) ==
    /\ rec.json = "object"
    /\ IF rec.source = "claude"
       THEN rec.message = "dict" /\ rec.sessionId # "<array>"
       ELSE /\ rec.id # "<number>"
            /\ rec.sessionID # "<array>"
            /\ rec.created \in {NULL, "1.5"}

\* The file of the record is well formed: the record, and with a claude line
\* the other lines of its file.
InWellFormedFile(i) ==
    /\ WellFormed(files[i])
    /\ files[i].source = "claude" =>
           \A j \in DOMAIN files :
               files[j].source = "claude" /\ files[j].file = files[i].file
               => WellFormed(files[j])

(***************************************************************************)
(* C17: a malformed or unparseable source file never aborts the run: for   *)
(* every file content, each loader skips the file and continues, and the   *)
(* messages of all other, well-formed files are still returned.            *)
(***************************************************************************)
C17_NeverAborts ==
    /\ raised = NULL
    /\ Cardinality({i \in DOMAIN files : InWellFormedFile(i)}) <= Len(msgs)
    /\ \A i \in DOMAIN files :
           InWellFormedFile(i) =>
               \E j \in DOMAIN msgs :
                   /\ msgs[j].source = files[i].source
                   /\ msgs[j].role = files[i].role
                   /\ msgs[j].text = ExpectedText(files[i], args)

\* What main prints last when it ends without an exception (line 432).
Report == "Wrote " \o ToString(Len(rows)) \o " prompt/answer pairs"

\* main has come to its end (line 432).
Ended == pc = "exported"

(***************************************************************************)
(* C18: an empty source alone is not fatal, but when all sources yield no  *)
(* messages the export reports "no data" and ends with a non-zero status   *)
(* instead of completing with an empty output.                             *)
(***************************************************************************)
C18_NoDataFails ==
    /\ Ended /\ msgs # << >> => ExitStatus = 0
    /\ Ended /\ msgs = << >> => ExitStatus # 0 /\ Report = "no data"

(***************************************************************************)
(* Merged sessions: main puts the messages of both sources that share a    *)
(* session id in one list (lines 395-398), so that a prompt of one source  *)
(* is answered by messages of the other.                                   *)
(***************************************************************************)
MergedMessages ==
    {ClaudeMessage("user", "A", "t1", NULL, << >>),
     OpencodeMessage("user", "B", "t2", "T", "m1", "p1", "a1", "d1"),
     ClaudeMessage("assistant", "C", "t1", "m3", <<"bash">>),
     OpencodeMessage("assistant", "D", "t2", NULL, "m2", "p2", "a2", "d2")}

NextMerged ==
    \/ \E msg \in MergedMessages : UserMessage(msg)
    \/ \E msg \in MergedMessages : AssistantMessage(msg)
    \/ \E msg \in MergedMessages : OtherMessage(msg)
    \/ Return
    \/ Export

SpecMerged == Init /\ [][NextMerged]_vars

\* The answers of the k-th pair are all of the source that is not its prompt's.
AnsweredByOther(k) ==
    \A j \in DOMAIN Answers(k) :
        session_messages[Answers(k)[j]].source # session_messages[Origin(k)].source

(***************************************************************************)
(* C21: the prompt text, the title and the prompt metadata (source, model, *)
(* provider, agent, mode) of a pair all come from the one user message     *)
(* that opened it, and the source of the exported row is the source of     *)
(* that message, also when the answers come from the other source of a     *)
(* merged session.                                                         *)
(***************************************************************************)
C21_PromptOfOneMessage ==
    /\ Len(pairs) <= Cardinality(Due)
    /\ \A k \in DOMAIN pairs :
           LET opener == session_messages[Origin(k)]
           IN  /\ pairs[k].prompt = opener.text
               /\ pairs[k].title = opener.title
               /\ pairs[k].prompt_meta =
                      [source |-> opener.source, model |-> opener.model,
                       provider |-> opener.provider, agent |-> opener.agent,
                       mode |-> opener.mode]
    /\ \A k \in DOMAIN rows :
           LET opener == session_messages[Origin(k)]
           IN  /\ rows[k].source = opener.source
               /\ rows[k].prompt = opener.text
               /\ rows[k].session_title = opener.title
               /\ rows[k].prompt_model = opener.model
               /\ rows[k].prompt_provider = opener.provider

\* Two prompts of different sources, each answered by the other source only,
\* have been exported.
C21_Witness ==
    /\ pc = "exported"
    /\ Len(rows) = 2
    /\ rows[1].source = "opencode"
    /\ rows[2].source = "claude"
    /\ rows[1].session_title = "T"
    /\ \A k \in DOMAIN rows : AnsweredByOther(k)

(***************************************************************************)
(* Turns of a claude session with tool calls, as the logs record them: the *)
(* prompt, assistant records of text and tool_use items or of tool_use     *)
(* items alone, the tool result stored as a record of role user, a system  *)
(* record, and the files of a subagent, in the directory named subagents   *)
(* and in one below it; with them opencode files of a system and of an     *)
(* assistant message.  include_system, include_tool_output and             *)
(* include_subagents take both values.                                     *)
(***************************************************************************)
TurnClaudeLines ==
    {ClaudeLine(1, "object", "user", "user", NULL, StrContent("A"), "s1", NULL),
     ClaudeLine(1, "object", "assistant", "assistant", "m1",
                ListContent(<<TextItem("B"), [type |-> "tool_use", name |-> "bash"]>>),
                "s1", NULL),
     ClaudeLine(1, "object", "assistant", "assistant", "m1",
                ListContent(<<[type |-> "tool_use", name |-> "edit"]>>), "s1", NULL),
     ClaudeLine(1, "object", "user", "user", NULL,
                ListContent(<<ToolResultItem(StrOutput("out"))>>), "s1", NULL),
     ClaudeLine(1, "object", "system", "system", NULL, StrContent("S"), "s1", NULL),
     [ClaudeLine(2, "object", "user", "user", NULL, StrContent("C"), "s1", NULL)
          EXCEPT !.dirpath = "/c/p/subagents"],
     [ClaudeLine(3, "object", "assistant", "assistant", NULL, StrContent("D"), "s1", NULL)
          EXCEPT !.dirpath = "/c/p/subagents/x"]}

TurnOpencodeFiles ==
    {OpencodeFile("object", "s1", role, "m1", NULL, NULL, NoModelBlock, NULL, NULL,
                  NULL, <<TextPart("E")>>) : role \in {"system", "assistant"}}

NextTurns ==
    \/ \E rec \in TurnClaudeLines : ReadClaudeLine(rec)
    \/ \E rec \in TurnOpencodeFiles : ReadOpencodeFile(rec)
    \/ Sort
    \/ Pair
    \/ Export

SpecTurns ==
    /\ InitAt({[DefaultArgs EXCEPT !.include_system = s, !.include_tool_output = t,
                                    !.include_subagents = g] :
                   s \in BOOLEAN, t \in BOOLEAN, g \in BOOLEAN}, {NoTitles}, "load")
    /\ [][NextTurns]_vars

\* The messages of a list that are user or assistant messages, in order.
Participants(s) == SelectSeq(s, LAMBDA m : m.role \in {"user", "assistant"})

(***************************************************************************)
(* C22: a message whose role is neither user nor assistant takes no part   *)
(* in pairing: the pairs of a list are the pairs of the list with those    *)
(* messages removed; and while include_system is unset no such message is  *)
(* loaded at all.                                                          *)
(***************************************************************************)
C22_OtherRolesIgnored ==
    /\ ~args.include_system =>
           \A j \in DOMAIN msgs : msgs[j].role \in {"user", "assistant"}
    /\ pc \in {"returned", "exported"} =>
           /\ pairs = PairMessages(Participants(session_messages))
           /\ Len(pairs) = Cardinality(Answered(Participants(session_messages)))

\* A system message loaded between a prompt and its answer has been paired
\* around: the one row holds the answer that follows it.
C22_Witness ==
    /\ pc = "exported"
    /\ args.include_system
    /\ Len(session_messages) = 3
    /\ session_messages[1].role = "user"
    /\ session_messages[2].role = "system"
    /\ session_messages[3].role = "assistant"
    /\ Len(rows) = 1
    /\ rows[1].answer = session_messages[3].text

(***************************************************************************)
(* The records behind the messages of a session whose records carry no     *)
(* timestamp: the sort keeps the order of loading, so that the n-th        *)
(* message of the session is the message of the n-th record that added     *)
(* one.                                                                    *)
(***************************************************************************)
\* The messages the i-th record read has added.
Added(i) ==
    IF files[i].source = "opencode" THEN LoadOpencodeFile(files[i], args, titles)
    ELSE IF DirSkipped(files[i].dirpath, args) THEN << >>
    ELSE LoadClaudeLine(files[i], args)

RecordsLoaded == {i \in DOMAIN files : Added(i) # << >>}

\* The record of the n-th message, the end of the records when there is none.
RecordOf(n) ==
    IF n \in 1..Cardinality(RecordsLoaded) THEN Kth(RecordsLoaded, n) ELSE Len(files) + 1

\* The assistant records of the claude log between the prompt of the k-th
\* pair and the next user message, in directories the run reads.
TurnRecords(k) ==
    {i \in DOMAIN files :
        /\ RecordOf(Origin(k)) < i
        /\ i < RecordOf(TurnEnd(session_messages, Origin(k)))
        /\ files[i].source = "claude"
        /\ files[i].type = "assistant"
        /\ files[i].role = "assistant"
        /\ ~DirSkipped(files[i].dirpath, args)}

\* The non-empty names of the tool_use items of a record.
ToolUses(rec) ==
    IF rec.content.form # "list" THEN {}
    ELSE {rec.content.items[j].name :
              j \in {j \in DOMAIN rec.content.items :
                         /\ rec.content.items[j].type = "tool_use"
                         /\ rec.content.items[j].name # ""}}

(***************************************************************************)
(* C23: every tool the assistant invoked in a turn is in the answer_tools  *)
(* of the turn's pair: each assistant record of the log between the prompt *)
(* of a pair and the next user message that carries a tool_use item with a *)
(* non-empty name has that name in answer_tools, a record of tool_use      *)
(* items alone, without text, included.                                    *)
(***************************************************************************)
C23_EveryToolListed ==
    pc = "exported" =>
        \A k \in DOMAIN rows :
            \A i \in TurnRecords(k) :
                ToolUses(files[i]) \subseteq Range(rows[k].answer_tools)

\* The record holds tool results and nothing else.
ToolResultOnly(rec) ==
    /\ rec.source = "claude"
    /\ rec.content.form = "list"
    /\ rec.content.items # << >>
    /\ \A j \in DOMAIN rec.content.items : rec.content.items[j].type = "tool_result"

\* The user records a human wrote.
HumanPrompts == {i \in DOMAIN files : files[i].role = "user" /\ ~ToolResultOnly(files[i])}

(***************************************************************************)
(* C24: one human prompt that sets off a sequence of tool calls yields one *)
(* pair, whatever include_tool_output: a tool result stored as a record of *)
(* role user opens no pair, so that there are no more pairs than human     *)
(* prompts, and no pair has a prompt made of folded tool output, a text    *)
(* that begins with "TOOL_OUTPUT: ".                                       *)
(***************************************************************************)
C24_OnePairPerHumanPrompt ==
    pc = "exported" =>
        /\ Len(rows) <= Cardinality(HumanPrompts)
        /\ \A k \in DOMAIN rows : ~Begins(rows[k].prompt, "TOOL_OUTPUT: ")

\* The directory is one named subagents, or lies below one.
InSubagents(dirpath) == HasMarker(dirpath \o "/", "/subagents/")

\* C26, the step: a line of a file in or below a directory named subagents
\* adds no message while include_subagents is false, and what any line adds
\* while it is true.
C26_Step ==
    (Loads /\ Source.source = "claude" /\ InSubagents(Source.dirpath))
    => IF args.include_subagents
       THEN msgs' = msgs \o LoadClaudeLine(Source, args)
       ELSE LoadsNothing

(***************************************************************************)
(* C26: while include_subagent_sessions is false no message of a log file  *)
(* in or below a directory named subagents is loaded, at any depth, the    *)
(* files placed in that very directory included; while it is true those    *)
(* files are loaded like any other.                                        *)
(***************************************************************************)
C26_SubagentsSkipped == [][C26_Step]_vars

\* The assistant messages of the turn of the k-th pair.
OwnAnswers(k) == {session_messages[Answers(k)[n]] : n \in DOMAIN Answers(k)}

\* C25, the transition: a user message empties the answer accumulator, its
\* parts, time, metadata and tools, and no step changes or removes a pair
\* that has been emitted.
C25_Step ==
    /\ (Iterates /\ Current.role = "user")
       => /\ answer_parts' = << >>
          /\ answer_time' = NULL
          /\ answer_meta' = [model |-> NULL, provider |-> NULL, agent |-> NULL,
                             mode |-> NULL, tools |-> {}]
    /\ Len(pairs') >= Len(pairs)
    /\ SubSeq(pairs', 1, Len(pairs)) = pairs

\* C25, the consequence: the answer, its time, its metadata and its tools
\* come from the assistant messages of the pair's own turn and from no
\* other message.
C25_OwnTurn ==
    /\ Len(pairs) <= Cardinality(Due)
    /\ \A k \in DOMAIN pairs :
           /\ pairs[k].answer =
                  Lines([n \in DOMAIN Answers(k) |-> session_messages[Answers(k)[n]].text])
           /\ pairs[k].answer_time = session_messages[LastAnswer(k)].time
           /\ pairs[k].answer_meta.tools = UNION {Range(m.tools) : m \in OwnAnswers(k)}
           /\ pairs[k].answer_meta.model \in {NULL} \cup {m.model : m \in OwnAnswers(k)}
           /\ pairs[k].answer_meta.provider \in {NULL} \cup {m.provider : m \in OwnAnswers(k)}
           /\ pairs[k].answer_meta.agent \in {NULL} \cup {m.agent : m \in OwnAnswers(k)}
           /\ pairs[k].answer_meta.mode \in {NULL} \cup {m.mode : m \in OwnAnswers(k)}

(***************************************************************************)
(* C25: turns are isolated: every user message resets the answer           *)
(* accumulator, so that no part, time, metadata or tool of an earlier turn *)
(* leaks into a later pair, and a pair once emitted is never changed by    *)
(* later messages.                                                         *)
(***************************************************************************)
C25_TurnsIsolated == [][C25_Step]_vars /\ []C25_OwnTurn

\* Two turns have been paired, the first with agent, mode and no tool, the
\* second with a tool and neither agent nor mode.
C25_Witness ==
    /\ pc = "returned"
    /\ Len(pairs) = 2
    /\ pairs[1].answer_meta.agent = "a2"
    /\ pairs[1].answer_meta.tools = {}
    /\ pairs[2].answer_meta.agent = NULL
    /\ pairs[2].answer_meta.tools = {"bash"}
    /\ pairs[1].answer # pairs[2].answer

(***************************************************************************)
(* C27: in the list sort_messages returns, the messages whose timestamp is *)
(* missing come last, after every message with a timestamp, and keep the   *)
(* order they had among themselves.                                        *)
(***************************************************************************)
C27_MissingSortLast ==
    pc \in {"sorted", "returned", "exported"} =>
        /\ \A i, j \in DOMAIN session_messages :
               (session_messages[i].time = NULL /\ session_messages[j].time # NULL) => j < i
        /\ SelectSeq(session_messages, LAMBDA m : m.time = NULL)
           = SelectSeq(msgs, LAMBDA m : m.time = NULL)

(***************************************************************************)
(* opencode-token-report: load_messages (lines 84-117).  A stored message  *)
(* is [json, id, role, tokens]: json tells whether the data of the row or  *)
(* the file is invalid JSON, a JSON value that is no object, or an object; *)
(* tokens whether the object has the key "tokens".  A database is [exists, *)
(* rows, broken]: broken when connecting, reading past the rows given or   *)
(* closing raises.                                                         *)
(***************************************************************************)
MaxStored == 2

\* The tests of lines 95-98 and 108-111.
HasTokenData(d) == d.role = "assistant" /\ d.tokens

\* Lines 92-99: json.loads of invalid data raises, and so does the item
\* assignment d["sessionID"] = row[0] on what is no object.
RECURSIVE ReadRows(_, _)
ReadRows(messages, stored) ==
    IF stored = << >> THEN [raised |-> FALSE, messages |-> messages]
    ELSE IF Head(stored).json # "object" THEN [raised |-> TRUE, messages |-> messages]
    ELSE ReadRows(IF HasTokenData(Head(stored)) THEN Append(messages, Head(stored))
                  ELSE messages, Tail(stored))

\* Mutant: the except clause keeps the rows read so far.
ReadSqliteKeepsRows(db) ==
    IF ~db.exists THEN [messages |-> << >>, source |-> "json"]
    ELSE IF db.broken \/ ReadRows(<< >>, db.rows).raised
    THEN [messages |-> ReadRows(<< >>, db.rows).messages, source |-> "json"]
    ELSE [messages |-> ReadRows(<< >>, db.rows).messages, source |-> "sqlite"]

\* Lines 86-103: messages and source after the SQLite attempt.
ReadSqlite(db) ==
    IF ~db.exists THEN [messages |-> << >>, source |-> "json"]
    ELSE IF db.broken \/ ReadRows(<< >>, db.rows).raised
    THEN [messages |-> << >>, source |-> "json"]
    ELSE [messages |-> ReadRows(<< >>, db.rows).messages, source |-> "sqlite"]

\* Lines 106-115: each file in a try of its own; d.get raises on what is no
\* object.
RECURSIVE ReadJson(_)
ReadJson(stored) ==
    IF stored = << >> THEN << >>
    ELSE (IF Head(stored).json = "object" /\ HasTokenData(Head(stored))
          THEN <<Head(stored)>> ELSE << >>) \o ReadJson(Tail(stored))

LoadMessages(db, json_files) ==
    IF ReadSqlite(db).messages = << >>
    THEN [messages |-> ReadJson(json_files), source |-> "json"]
    ELSE ReadSqlite(db)

\* One call of load_messages (line 906).
CallLoadMessages(db, json_files) ==
    /\ pc = "call"
    /\ call' = [db |-> db, json_files |-> json_files,
                messages |-> LoadMessages(db, json_files).messages,
                source |-> LoadMessages(db, json_files).source]
    /\ pc' = "called"
    /\ UNCHANGED <<args, titles, files, msgs, raised, rows>>
    /\ UNCHANGED pairvars

\* The lists of up to n elements of a set.
RECURSIVE Lists(_, _)
Lists(S, n) ==
    IF n = 0 THEN {<< >>}
    ELSE Lists(S, n - 1) \cup {Append(l, x) : l \in Lists(S, n - 1), x \in S}

(***************************************************************************)
(* Stores of the token report: rows of the database and message files,     *)
(* told apart by their ids, of an assistant message with token data, of    *)
(* one without, of a user message, and of data that is invalid JSON or no  *)
(* object; databases that are missing, sound or broken.                    *)
(***************************************************************************)
Stored(backend) ==
    {[json |-> "object", id |-> backend \o "1", role |-> "assistant", tokens |-> TRUE],
     [json |-> "object", id |-> backend \o "2", role |-> "assistant", tokens |-> FALSE],
     [json |-> "object", id |-> backend \o "3", role |-> "user", tokens |-> TRUE],
     [json |-> "invalid", id |-> backend \o "4", role |-> NULL, tokens |-> FALSE],
     [json |-> "nonobject", id |-> backend \o "5", role |-> NULL, tokens |-> FALSE]}

NextReport ==
    /\ pc = "call"
    /\ \E db \in {[exists |-> FALSE, rows |-> << >>, broken |-> FALSE]}
                  \cup {[exists |-> TRUE, rows |-> r, broken |-> b] :
                            r \in Lists(Stored("db"), MaxStored), b \in BOOLEAN},
          json_files \in Lists(Stored("file"), MaxStored) :
           CallLoadMessages(db, json_files)

SpecReport == InitAt({DefaultArgs}, {NoTitles}, "call") /\ [][NextReport]_vars

\* What the stores say: the positions of the assistant messages with token
\* data, and whether the whole database reads without an exception.
Usable(stored) ==
    {i \in DOMAIN stored :
        /\ stored[i].json = "object"
        /\ stored[i].role = "assistant"
        /\ stored[i].tokens}

Readable(db) ==
    db.exists /\ ~db.broken /\ \A i \in DOMAIN db.rows : db.rows[i].json = "object"

\* The elements of a list at the positions of a set, in order.
At(stored, S) == [n \in 1..Cardinality(S) |-> stored[Kth(S, n)]]

(***************************************************************************)
(* C28: load_messages returns the messages of exactly one backend and      *)
(* labels them so: the rows of the database, labelled sqlite, when it is   *)
(* readable and yields at least one assistant message with token data, and *)
(* the legacy JSON files, labelled json, otherwise; rows read before a     *)
(* failure of the database are discarded, not mixed with the files; and    *)
(* every message returned has role assistant and a tokens field.           *)
(***************************************************************************)
C28_OneBackend ==
    call # NoCall =>
        /\ IF Readable(call.db) /\ Usable(call.db.rows) # {}
           THEN /\ call.source = "sqlite"
                /\ call.messages = At(call.db.rows, Usable(call.db.rows))
           ELSE /\ call.source = "json"
                /\ call.messages = At(call.json_files, Usable(call.json_files))
        /\ \A i \in DOMAIN call.messages :
               call.messages[i].role = "assistant" /\ call.messages[i].tokens

\* The database gave a usable row and then failed: the files are returned,
\* without the row.
C28_Witness ==
    /\ call # NoCall
    /\ Len(call.db.rows) = 2
    /\ 1 \in Usable(call.db.rows)
    /\ call.db.rows[2].json = "invalid"
    /\ call.source = "json"
    /\ Len(call.messages) = 1
    /\ call.messages[1].id = "file1"

(***************************************************************************)
(* chunk_pairs: main (lines 57-102).  A pair is a row of pairs.jsonl, a    *)
(* dict with the prompt and, when present, total_tokens, which is a JSON   *)
(* int or null; a chunk is the payload written for it, with the rows in    *)
(* place of the text built from them.                                      *)
(***************************************************************************)
MaxInput == 4

MaxLimit == 3

\* row.get("total_tokens") or 0 (line 77)
TotalTokens(row) ==
    IF "total_tokens" \in DOMAIN row /\ row.total_tokens.json = "int"
    THEN row.total_tokens.n ELSE 0

\* Lines 79 and 87 with the payload of lines 91-99.
Chunk(st) ==
    [chunk_id |-> st.chunk_id, pair_count |-> Len(st.current),
     token_sum |-> st.current_tokens, rows |-> st.current]

\* Mutant: a closed chunk leaves its token count to the next.
ChunkBodyKeepsTokens(st, row, a) ==
    IF /\ st.current # << >>
       /\ \/ st.current_tokens + TotalTokens(row) > a.max_total_tokens
          \/ Len(st.current) >= a.max_pairs
    THEN [chunks |-> Append(st.chunks, Chunk(st)), chunk_id |-> st.chunk_id + 1,
          current |-> <<row>>, current_tokens |-> st.current_tokens + TotalTokens(row)]
    ELSE [st EXCEPT !.current = Append(@, row),
                    !.current_tokens = @ + TotalTokens(row)]

\* Mutant: a chunk is closed when it holds more than max_pairs pairs.
ChunkBodyOnePairLate(st, row, a) ==
    IF /\ st.current # << >>
       /\ \/ st.current_tokens + TotalTokens(row) > a.max_total_tokens
          \/ Len(st.current) > a.max_pairs
    THEN [chunks |-> Append(st.chunks, Chunk(st)), chunk_id |-> st.chunk_id + 1,
          current |-> <<row>>, current_tokens |-> TotalTokens(row)]
    ELSE [st EXCEPT !.current = Append(@, row),
                    !.current_tokens = @ + TotalTokens(row)]

\* The body of the loop (lines 77-84).
ChunkBody(st, row, a) ==
    IF /\ st.current # << >>
       /\ \/ st.current_tokens + TotalTokens(row) > a.max_total_tokens
          \/ Len(st.current) >= a.max_pairs
    THEN [chunks |-> Append(st.chunks, Chunk(st)), chunk_id |-> st.chunk_id + 1,
          current |-> <<row>>, current_tokens |-> TotalTokens(row)]
    ELSE [st EXCEPT !.current = Append(@, row),
                    !.current_tokens = @ + TotalTokens(row)]

\* for row in pairs (lines 76-84)
RECURSIVE ChunkLoop(_, _, _)
ChunkLoop(st, input, a) ==
    IF input = << >> THEN st
    ELSE ChunkLoop(ChunkBody(st, Head(input), a), Tail(input), a)

\* Lines 71-87: the chunks of the pairs.
ChunkPairs(input, a) ==
    LET st == ChunkLoop([chunks |-> << >>, chunk_id |-> 1, current |-> << >>,
                         current_tokens |-> 0], input, a)
    IN  IF st.current # << >> THEN Append(st.chunks, Chunk(st)) ELSE st.chunks

\* One run of main: without pairs it exits before it chunks (lines 68-69).
RunChunkPairs(input, a) ==
    /\ pc = "call"
    /\ call' = [pairs |-> input, args |-> a,
                exit |-> IF input = << >>
                         THEN "No pairs found. Run export_pairs.py first." ELSE NULL,
                chunks |-> IF input = << >> THEN << >> ELSE ChunkPairs(input, a)]
    /\ pc' = "called"
    /\ UNCHANGED <<args, titles, files, msgs, raised, rows>>
    /\ UNCHANGED pairvars

(***************************************************************************)
(* Inputs of the chunker: rows whose total_tokens is an int from 0 to      *)
(* MaxLimit, null or missing, in lists of up to MaxInput, with a limit of  *)
(* tokens from 0 to MaxLimit and a limit of pairs from 1 on.               *)
(***************************************************************************)
PairRows ==
    {[prompt |-> "A", total_tokens |-> [json |-> "int", n |-> n]] : n \in 0..MaxLimit}
    \cup {[prompt |-> "B", total_tokens |-> [json |-> "null"]], [prompt |-> "C"]}

NextChunks ==
    /\ pc = "call"
    /\ \E input \in Lists(PairRows, MaxInput), t \in 0..MaxLimit, p \in 1..(MaxLimit - 1) :
           RunChunkPairs(input, [max_total_tokens |-> t, max_pairs |-> p])

SpecChunks == InitAt({DefaultArgs}, {NoTitles}, "call") /\ [][NextChunks]_vars

\* What a row counts for: its total_tokens, 0 when missing or null.
Counted(row) ==
    IF "total_tokens" \notin DOMAIN row THEN 0
    ELSE IF row.total_tokens.json = "null" THEN 0
    ELSE row.total_tokens.n

RECURSIVE SumCounted(_)
SumCounted(l) == IF Len(l) = 0 THEN 0 ELSE Counted(l[1]) + SumCounted(SubSeq(l, 2, Len(l)))

\* The rows of a list of chunks, one chunk after the other.
RECURSIVE Concatenated(_)
Concatenated(chunks) ==
    IF Len(chunks) = 0 THEN << >>
    ELSE Concatenated(SubSeq(chunks, 1, Len(chunks) - 1)) \o chunks[Len(chunks)].rows

(***************************************************************************)
(* C29: the chunker partitions the input pairs without loss or reordering: *)
(* the rows of the chunks in order are the input; every chunk is           *)
(* non-empty; the chunk ids are 1..n in order; and token_sum of a chunk is *)
(* the sum of the total_tokens of its pairs, a missing or null one         *)
(* counting 0.                                                             *)
(***************************************************************************)
C29_Partition ==
    call # NoCall =>
        /\ call.exit = NULL => Concatenated(call.chunks) = call.pairs
        /\ \A k \in DOMAIN call.chunks :
               /\ call.chunks[k].rows # << >>
               /\ call.chunks[k].pair_count = Len(call.chunks[k].rows)
               /\ call.chunks[k].chunk_id = k
               /\ call.chunks[k].token_sum = SumCounted(call.chunks[k].rows)

\* Two chunks of two pairs, the first with a pair of missing and a pair of
\* null total_tokens.
C29_Witness ==
    /\ call # NoCall
    /\ Len(call.chunks) = 2
    /\ call.chunks[1].pair_count = 2
    /\ call.chunks[2].pair_count = 2
    /\ call.chunks[1].token_sum = 0
    /\ call.chunks[1].rows[1].prompt # call.chunks[1].rows[2].prompt
    /\ call.chunks[2].token_sum = 3

(***************************************************************************)
(* C30: for every input and limits with max_pairs at least 1: a chunk      *)
(* holds at most max_pairs pairs; its token_sum is at most                 *)
(* max_total_tokens unless it is a single pair whose own total_tokens is   *)
(* above the limit; and chunks are maximal, one being closed only when the *)
(* next pair would break a limit.                                          *)
(***************************************************************************)
C30_LimitsAndMaximal ==
    (call # NoCall /\ call.args.max_pairs >= 1) =>
        /\ \A k \in DOMAIN call.chunks :
               /\ Len(call.chunks[k].rows) <= call.args.max_pairs
               /\ \/ call.chunks[k].token_sum <= call.args.max_total_tokens
                  \/ /\ Len(call.chunks[k].rows) = 1
                     /\ Counted(call.chunks[k].rows[1]) > call.args.max_total_tokens
        /\ \A k \in 1..(Len(call.chunks) - 1) :
               \/ Len(call.chunks[k].rows) = call.args.max_pairs
               \/ SumCounted(call.chunks[k].rows) + Counted(call.chunks[k + 1].rows[1])
                      > call.args.max_total_tokens

\* A chunk of max_pairs pairs under the limit of tokens, then a chunk of one
\* pair that is above the limit of tokens on its own, then a last chunk.
C30_Witness ==
    /\ call # NoCall
    /\ Len(call.chunks) = 3
    /\ call.args.max_pairs = 2
    /\ call.args.max_total_tokens = 2
    /\ call.chunks[1].pair_count = 2
    /\ call.chunks[1].token_sum < 2
    /\ call.chunks[2].pair_count = 1
    /\ call.chunks[2].token_sum = 3
    /\ call.chunks[3].pair_count = 1

=============================================================================
